---- MODULE Spec2Model ----
(***************************************************************************)
(* Entitlement cache of the paywall service: the resolver                  *)
(* (checkEntitlement), the synchronous finalize writer (finalizeHandler)   *)
(* and the webhook reconciler (handler / processWebhookEvent), all writing *)
(* one DynamoDB table, against a Stripe account whose subscriptions change *)
(* on their own.                                                           *)
(*                                                                         *)
(* Optional (possibly undefined) JavaScript values are sequences of length *)
(* at most one: <<>> is undefined, <<v>> is the value v.                   *)
(***************************************************************************)
EXTENDS Integers, Sequences, FiniteSets, TLC

\* ---------------------------------------------------------------- bounds
MaxTime == 450
TimeStep == 150
MaxSubs == 1
MaxEvents == 2
MaxRequests == 3
MaxAudienceLen == 3
MaxCaseSubs == 2
MaxEventSubs == 1
PeriodEnd == 2592000

\* ------------------------------------------------------------- constants
ACTIVE_TTL == 5 * 60
INACTIVE_TTL == 60
FINALIZE_ACTIVE_TTL == 5 * 60
WEBHOOK_ACTIVE_TTL == 5 * 60
REVOKE_TTL == 60

\* ------------------------------------------------------ JavaScript values
None == <<>>
Some(v) == <<v>>

\* JavaScript truthiness of an optional string: undefined and '' are falsy.
Truthy(o) == o # <<>> /\ o[1] # ""

\* a || d
OrElse(o, d) == IF Truthy(o) THEN o[1] ELSE d

\* new Date(seconds * 1000).toISOString()
toISOString(seconds) == ToString(seconds) \o "Z"

\* `${tenantId}#${productId}`
tenantProductKey(tenantId, productId) == tenantId \o "#" \o productId

\* ------------------------------------------------------------ the world
TenantId == "t1"
Products == {"p1"}
WILDCARD == "*"
Emails == {"e1"}
UserIdInputs == {None}
CheckProcs == {"c1", "c2"}
FinalizeProcs == {"f1"}
WebhookProcs == {"w1", "w2"}

\* The customers of the tenant's Stripe account, and the one that checks out.
AccountCustomers == {"cus_1", "cus_2"}
Customers == {"cus_1"}
CustomerEmail(c) ==
  IF c = "cus_1" THEN Some("e1")
  ELSE IF c = "cus_2" THEN Some("e3")
  ELSE None

\* The prices of the tenant's Stripe account, and those offered for product p1.
AccountPrices == {"price_pro", "price_free", "price_other"}
Prices == {"price_pro", "price_free"}

\* The Stripe product behind a price: id and metadata.
PriceProduct(price) ==
  IF price = "price_pro"
  THEN [id |-> "prod_pro", plan_code |-> Some("pro"), audience |-> Some("p1")]
  ELSE IF price = "price_other"
  THEN [id |-> "prod_other", plan_code |-> Some("other"), audience |-> Some("p2")]
  ELSE [id |-> "prod_free", plan_code |-> None, audience |-> None]

SubStatuses == {"incomplete", "active", "trialing", "past_due", "canceled"}
AccessStatusesMutActiveOnly == {"active"}

\* The statuses updateEntitlementFromSubscription grants access for.
AccessStatuses == {"active", "trialing"}

StoreKeys ==
  {tenantProductKey(TenantId, p) : p \in Products \cup {WILDCARD}}
    \X {"e1", "u1"}

\* What db.getTenant returns: no record, or the tenant record.
Tenants == {None, Some([credentialsConfigured |-> FALSE]),
            Some([credentialsConfigured |-> TRUE])}
ConfiguredTenant == Some([credentialsConfigured |-> TRUE])

\* product.subscriptionCallbackUrl of the product record
subscriptionCallbackUrl(product_id) ==
  IF product_id = "p1" THEN Some("https://p1.example/callback") ELSE None

VARIABLES
  now,        \* Math.floor(Date.now() / 1000)
  store,      \* EntitlementCacheTable: key -> optional row
  writeLog,   \* history: per key, the latest put: its writer, time and item
  subs,       \* the tenant's Stripe subscriptions, in creation order
  events,     \* Stripe events emitted so far, in emission order
  audits,     \* WebhookAuditTable: event index -> optional audit record
  check,      \* in-flight POST /entitlements/check calls
  fin,        \* in-flight POST /subscriptions/finalize calls
  wh,         \* in-flight POST /webhooks/stripe/{tenantId} calls
  evHist,     \* history: per event, deliveries, entitlement writes, audit puts
  paid,       \* history: key has a successful finalize whose subscription stayed active
  requests,   \* number of requests started
  last,       \* history: the request that finished most recently, and how
  audienceCase, \* an (audience, product id) pair and what the two matchers say
  decisionCase, \* an input of the billing query or of the reconciler, and its output
  admin       \* tenants, products, API keys, Stripe secrets and the Stripe client cache

vars == <<now, store, writeLog, subs, events, audits, check, fin, wh,
          evHist, paid, requests, last, audienceCase, decisionCase, admin>>

caseVars == <<audienceCase, decisionCase, admin>>

\* ------------------------------------------------------ entitlement store
getEntitlementCache(tenantId, productId, userId) ==
  store[<<tenantProductKey(tenantId, productId), userId>>]

\* A put that is lost.
setEntitlementCacheMutDrop(st, cache) == st

\* An update that keeps the stored planCode and currentPeriodEnd when the
\* incoming item has none.
setEntitlementCacheMutMerge(st, cache) ==
  LET k == <<cache.tenantProductKey, cache.userId>>
  IN [st EXCEPT ![k] =
        IF st[k] = None THEN Some(cache)
        ELSE Some([cache EXCEPT
               !.planCode = IF @ = None THEN st[k][1].planCode ELSE @,
               !.currentPeriodEnd =
                 IF @ = None THEN st[k][1].currentPeriodEnd ELSE @])]

\* PutCommand without condition: the item replaces the row of its key.
setEntitlementCache(st, cache) ==
  [st EXCEPT ![<<cache.tenantProductKey, cache.userId>>] = Some(cache)]

\* Exported by the store module; no handler calls it.
deleteEntitlementCache(st, tenantId, productId, userId) ==
  [st EXCEPT ![<<tenantProductKey(tenantId, productId), userId>>] = None]

LogWrite(log, cache, writer) ==
  [log EXCEPT ![<<cache.tenantProductKey, cache.userId>>] =
     Some([writer |-> writer, at |-> now, row |-> cache])]

\* --------------------------------------------------------- Stripe account
subscriptionId(i) == "sub_" \o ToString(i)
eventId(i) == "evt_" \o ToString(i)

\* stripe.customers.list({ email, limit: 1 })
customersList(email) == {c \in AccountCustomers : CustomerEmail(c) = Some(email)}

\* stripe.subscriptions.list({ customer, status }): indexes, newest first
RECURSIVE subscriptionsList(_, _, _)
subscriptionsList(customer, status, i) ==
  IF i = 0 THEN <<>>
  ELSE IF subs[i].customer = customer /\ subs[i].status = status
       THEN <<i>> \o subscriptionsList(customer, status, i - 1)
       ELSE subscriptionsList(customer, status, i - 1)

\* The audience test of queryStripeEntitlement.
audienceMatches(audience, productId) ==
  ~Truthy(audience) \/ audience[1] = productId

RECURSIVE firstMatch(_, _)
firstMatch(allSubs, productId) ==
  IF allSubs = <<>> THEN 0
  ELSE IF audienceMatches(PriceProduct(subs[Head(allSubs)].price).audience, productId)
       THEN Head(allSubs)
       ELSE firstMatch(Tail(allSubs), productId)

NoEntitlement ==
  [hasAccess |-> FALSE, subscriptionId |-> None, planCode |-> None,
   status |-> None, currentPeriodEnd |-> None]

queryStripeEntitlement(email, productId) ==
  IF customersList(email) = {} THEN NoEntitlement
  ELSE LET customer == CHOOSE c \in customersList(email) : TRUE
           allSubs == subscriptionsList(customer, "active", Len(subs))
                        \o subscriptionsList(customer, "trialing", Len(subs))
           m == firstMatch(allSubs, productId)
       IN IF m = 0 THEN NoEntitlement
          ELSE LET stripeProduct == PriceProduct(subs[m].price)
               IN [hasAccess |-> TRUE,
                   subscriptionId |-> Some(subscriptionId(m)),
                   planCode |-> Some(OrElse(stripeProduct.plan_code, stripeProduct.id)),
                   status |-> Some(subs[m].status),
                   currentPeriodEnd |-> Some(toISOString(subs[m].current_period_end))]

\* ------------------------------------- tenants, products, keys, secrets
TenantIds == {"t1", "t2"}
AdminProductIds == {"p1", WILDCARD}
SecretKeys == {"sk_1", "sk_2"}
PublishableKey == "pk_1"
TenantName == "n1"

\* crypto.createHash('sha256').update(rawKey).digest('hex')
hashApiKey(rawKey) == "sha256(" \o rawKey \o ")"

\* generateApiKey(type); n stands for the random part.
generateApiKey(type, n) ==
  (IF type = "admin" THEN "pk_paywall_" ELSE "sk_paywall_") \o ToString(n)

\* Raw keys handed out so far at the start: the admin keys of t1 and t2 and
\* the key of product p1 of t1; later product keys take the next numbers.
FirstKeySeq == 3

\* What the x-api-key header of a request can carry.
ApiKeyHeaders ==
  {None, Some(generateApiKey("admin", 1)), Some(generateApiKey("admin", 2)),
   Some(generateApiKey("product", 3)), Some(generateApiKey("product", 4))}

\* The ApiKeyRecord tenants.createHandler / products.createHandler put.
ApiKeyRecord(rawKey, tenantId, productId, keyType) ==
  [apiKeyHash |-> hashApiKey(rawKey), tenantId |-> tenantId,
   productId |-> productId, keyType |-> keyType]

\* Two registered tenants: t1 has stored Stripe credentials and a product p1,
\* t2 has neither.
InitAdmin ==
  [tenants |->
     [t \in TenantIds |->
        Some([name |-> Some(TenantName),
              credentialsConfigured |-> (t = "t1"),
              stripePublishableKey |-> IF t = "t1" THEN Some(PublishableKey) ELSE None])],
   products |->
     [k \in TenantIds \X AdminProductIds |->
        IF k = <<"t1", "p1">> THEN Some([productName |-> "n1"]) ELSE None],
   apiKeys |->
     {ApiKeyRecord(generateApiKey("admin", 1), "t1", WILDCARD, "admin"),
      ApiKeyRecord(generateApiKey("admin", 2), "t2", WILDCARD, "admin"),
      ApiKeyRecord(generateApiKey("product", 3), "t1", "p1", "product")},
   secrets |-> [t \in TenantIds |-> IF t = "t1" THEN Some("sk_1") ELSE None],
   clientCache |-> [t \in TenantIds |-> None],
   keySeq |-> FirstKeySeq]

\* ------------------------------------------------------------------ Init
IdleCheck ==
  [pc |-> "idle", productId |-> "", userId |-> "", userEmail |-> "",
   result |-> None, calls |-> 0, freshAtRead |-> FALSE, providerFailed |-> FALSE,
   afterPaid |-> FALSE, afterFinalize |-> FALSE, tenant |-> ConfiguredTenant]

IdleFinalize ==
  [pc |-> "idle", product_id |-> "", user_id |-> None, price_id |-> "",
   customer_id |-> "", payment_method |-> None, sub |-> 0, status |-> "",
   key |-> None, tenant |-> ConfiguredTenant]

NoRequest == [op |-> "none"]

IdleWebhook ==
  [pc |-> "idle", event |-> 0, result |-> "none", writes |-> 0, redelivery |-> FALSE,
   verification |-> "ok"]

\* No audience pair under examination.
NoAudienceCase ==
  [audience |-> None, productId |-> <<>>, query |-> None, plans |-> None]

NoEvent == [type |-> "", sub |-> 0, status |-> ""]

\* No input of the billing query or the reconciler under examination.
NoDecisionCase ==
  [kind |-> "none", email |-> "", productId |-> "", event |-> NoEvent,
   out |-> None, later |-> None]

\* The tables and request slots of the handlers, none started.
InitHandlers ==
  /\ now = 0
  /\ writeLog = [k \in StoreKeys |-> None]
  /\ audits = [e \in 1..MaxEvents |-> None]
  /\ check = [p \in CheckProcs |-> IdleCheck]
  /\ fin = [f \in FinalizeProcs |-> IdleFinalize]
  /\ wh = [w \in WebhookProcs |-> IdleWebhook]
  /\ evHist = [e \in 1..MaxEvents |->
                 [writes |-> 0, auditPuts |-> 0, overlap |-> FALSE]]
  /\ paid = [k \in StoreKeys |-> 0]
  /\ requests = 0
  /\ last = NoRequest

InitRequests ==
  /\ events = <<>>
  /\ InitHandlers

InitTables ==
  /\ store = [k \in StoreKeys |-> None]
  /\ InitRequests

Init ==
  /\ InitTables
  /\ subs = <<>>
  /\ audienceCase = NoAudienceCase
  /\ decisionCase = NoDecisionCase
  /\ admin = InitAdmin

\* ------------------------------------------------------------------ time
\* One step of the clock is far longer than any request can run (a Lambda
\* behind API Gateway is cut off after 29 s), so it never falls inside one.
Quiescent ==
  /\ \A p \in CheckProcs : check[p].pc = "idle"
  /\ \A f \in FinalizeProcs : fin[f].pc = "idle"
  /\ \A w \in WebhookProcs : wh[w].pc = "idle"

Tick ==
  /\ UNCHANGED caseVars
  /\ Quiescent
  /\ now + TimeStep <= MaxTime
  /\ now' = now + TimeStep
  /\ last' = NoRequest
  /\ UNCHANGED <<store, writeLog, subs, events, audits, check, fin, wh,
                 evHist, paid, requests>>

\* ------------------------------------------- Stripe's own state changes
\* An event carries the subscription as it was when the event was emitted.
Emit(type, i, status) ==
  Append(events, [type |-> type, sub |-> i, status |-> status])

StatusMoves ==
  {<<"incomplete", "active">>, <<"trialing", "active">>,
   <<"active", "past_due">>, <<"past_due", "active">>}

\* A key stops counting as paid once its subscription is no longer active.
Unpaid(i) == [k \in StoreKeys |-> IF paid[k] = i THEN 0 ELSE paid[k]]

StripeStatusChange(i, to, type) ==
  /\ UNCHANGED caseVars
  /\ i \in 1..Len(subs)
  /\ Len(events) < MaxEvents
  /\ <<subs[i].status, to>> \in StatusMoves
  /\ type \in IF to = "past_due"
              THEN {"invoice.payment_failed", "customer.subscription.updated"}
              ELSE {"customer.subscription.updated"}
  /\ subs' = [subs EXCEPT ![i].status = to]
  /\ events' = Emit(type, i, to)
  /\ paid' = IF to = "active" THEN paid ELSE Unpaid(i)
  /\ last' = NoRequest
  /\ UNCHANGED <<now, store, writeLog, audits, check, fin, wh, evHist,
                 requests>>

StripeCancel(i) ==
  /\ UNCHANGED caseVars
  /\ i \in 1..Len(subs)
  /\ Len(events) < MaxEvents
  /\ subs[i].status # "canceled"
  /\ subs' = [subs EXCEPT ![i].status = "canceled", ![i].canceledAt = now]
  /\ events' = Emit("customer.subscription.deleted", i, "canceled")
  /\ paid' = Unpaid(i)
  /\ last' = NoRequest
  /\ UNCHANGED <<now, store, writeLog, audits, check, fin, wh, evHist,
                 requests>>

\* Every subscription of the account is cancelled and the latest
\* cancellation is more than the long window ago.
AllCancelled == subs # <<>> /\ \A i \in 1..Len(subs) : subs[i].status = "canceled"
CancelledLongAgo ==
  AllCancelled /\ \A i \in 1..Len(subs) : now > subs[i].canceledAt + ACTIVE_TTL

\* ------------------------------------------- resolver: checkEntitlement
isFresh(cached) == cached # None /\ cached[1].ttl > now

\* A subscription object built whenever the row or the answer has a status.
subscriptionOfMutStored(r) ==
  IF r.status # None
  THEN Some([status |-> OrElse(r.status, "active"),
             planCode |-> OrElse(r.planCode, ""),
             currentPeriodEnd |-> OrElse(r.currentPeriodEnd, "")])
  ELSE None

subscriptionOf(r) ==
  IF r.hasAccess
  THEN Some([status |-> OrElse(r.status, "active"),
             planCode |-> OrElse(r.planCode, ""),
             currentPeriodEnd |-> OrElse(r.currentPeriodEnd, "")])
  ELSE None

hitResultMutDeny(cached) == [hasAccess |-> FALSE, subscription |-> None]

hitResult(cached) ==
  [hasAccess |-> cached.hasAccess, subscription |-> subscriptionOf(cached)]

missResult(result) ==
  [hasAccess |-> result.hasAccess, subscription |-> subscriptionOf(result)]

ttlSecondsMutSwap(hasAccess) == IF hasAccess THEN INACTIVE_TTL ELSE ACTIVE_TTL

ttlSeconds(hasAccess) == IF hasAccess THEN ACTIVE_TTL ELSE INACTIVE_TTL

resolverCacheEntry(tenantId, productId, userId, userEmail, result) ==
  [tenantProductKey |-> tenantProductKey(tenantId, productId),
   userId |-> userId,
   hasAccess |-> result.hasAccess,
   subscriptionId |-> result.subscriptionId,
   planCode |-> result.planCode,
   status |-> result.status,
   currentPeriodEnd |-> result.currentPeriodEnd,
   userEmail |-> Some(userEmail),
   ttl |-> now + ttlSeconds(result.hasAccess)]

CheckKey(c) == <<tenantProductKey(TenantId, c.productId), c.userId>>

\* checkHandler lines 60-86: the HTTP response for an outcome of checkEntitlement.
checkResponse(outcome, ret) ==
  IF outcome = "ok"
  THEN [statusCode |-> 200, has_access |-> Some(ret[1].hasAccess)]
  ELSE IF outcome = "notConfigured"
  THEN [statusCode |-> 400, has_access |-> None]
  ELSE [statusCode |-> 500, has_access |-> None]

\* product.checkoutDomain of the product record
checkoutDomain(product_id) ==
  IF product_id = "p1" THEN None ELSE Some("https://pay.p2.example")

\* new URLSearchParams({ t, p, email }).toString()
searchParams(t, p, email) == "t=" \o t \o "&p=" \o p \o "&email=" \o email

\* checkHandler lines 60-82: what the handler answers once checkEntitlement
\* has returned. result.subscription!.status of an absent subscription is a
\* TypeError, which the catch block of the handler answers with 500.
checkSuccess(result, tenantId, productId, user_email) ==
  IF result.hasAccess
  THEN IF result.subscription = None
       THEN [statusCode |-> 500, has_access |-> None, subscription |-> None,
             checkout_url |-> None]
       ELSE [statusCode |-> 200, has_access |-> Some(TRUE),
             subscription |->
               Some([status |-> result.subscription[1].status,
                     plan_code |-> result.subscription[1].planCode,
                     current_period_end |-> result.subscription[1].currentPeriodEnd]),
             checkout_url |-> None]
  ELSE [statusCode |-> 200, has_access |-> Some(FALSE), subscription |-> None,
        checkout_url |->
          Some(OrElse(checkoutDomain(productId), "https://pay.agentbrigade.ai")
                 \o "/plans?" \o searchParams(tenantId, productId, user_email))]

\* The finished call as the history remembers it.
CheckDone(c, cached, outcome, ret, reads, writes) ==
  [op |-> "check", key |-> CheckKey(c), cached |-> cached, hit |-> cached # None,
   tenant |-> c.tenant, reads |-> reads,
   calls |-> c.calls, writes |-> writes, outcome |-> outcome, ret |-> ret,
   response |-> checkResponse(outcome, ret),
   body |-> IF outcome = "ok"
            THEN Some(checkSuccess(ret[1], TenantId, c.productId, c.userEmail))
            ELSE None,
   freshAtRead |-> c.freshAtRead, providerFailed |-> c.providerFailed,
   afterFinalize |-> c.afterFinalize,
   afterPaid |-> c.afterPaid, paidAtReturn |-> (paid[CheckKey(c)] # 0),
   lateAtReturn |-> CancelledLongAgo]

\* Request slots are taken in order, so that interchangeable slots are not
\* explored twice.
ProcBefore(q, p) == <<q, p>> \in {<<"c1", "c2">>, <<"w1", "w2">>}

\* The step before this one was the successful return of a finalize for key k,
\* and the row of k is still the one that finalize wrote.
JustFinalized(k) ==
  /\ last.op = "finalize" /\ last.outcome = "ok" /\ last.key = k
  /\ writeLog[k] # None /\ writeLog[k][1].writer = "finalize"

tenantConfiguredMutAlways(tenant) == TRUE

\* The negation of `!tenant || !tenant.credentialsConfigured`.
tenantConfigured(tenant) == tenant # None /\ tenant[1].credentialsConfigured

\* checkHandler lines 22-53 and checkEntitlement lines 28-41: the tenant
\* gate and the store read.
CheckRead(p, product_id, user_id, user_email, tenant) ==
  /\ UNCHANGED caseVars
  /\ check[p].pc = "idle"
  /\ \A q \in CheckProcs : ProcBefore(q, p) => check[q].pc # "idle"
  /\ requests < MaxRequests
  /\ requests' = requests + 1
  /\ LET userId == OrElse(user_id, user_email)
         cached == getEntitlementCache(TenantId, product_id, userId)
         k == <<tenantProductKey(TenantId, product_id), userId>>
         refused == [IdleCheck EXCEPT !.productId = product_id, !.userId = userId,
                                      !.userEmail = user_email, !.tenant = tenant]
         c == [refused EXCEPT   !.freshAtRead =
                                  (store[k] # None /\ now < store[k][1].ttl),
                                !.afterPaid = (paid[k] # 0),
                                !.afterFinalize = JustFinalized(k)]
     IN IF ~tenantConfigured(tenant)
        THEN /\ last' = CheckDone(refused, None, "notConfigured", None, 0, 0)
             /\ UNCHANGED check
        ELSE IF isFresh(cached)
        THEN /\ last' = CheckDone(c, cached, "ok", Some(hitResult(cached[1])), 1, 0)
             /\ UNCHANGED check
        ELSE /\ check' = [check EXCEPT ![p] = [c EXCEPT !.pc = "query"]]
             /\ last' = NoRequest
  /\ UNCHANGED <<now, store, writeLog, subs, events, audits, fin, wh,
                 evHist, paid>>

ProviderCallsOfQuery == {"getStripeClient", "customers.list",
                         "subscriptions.list active", "subscriptions.list trialing"}

\* A failure caught and answered as "no access".
stripeQueryMutSwallow(failing, email, productId) ==
  [thrown |-> FALSE,
   value |-> IF failing = "none" THEN queryStripeEntitlement(email, productId)
             ELSE NoEntitlement]

\* A failed provider call tried again until it answers.
stripeQueryMutRetry(failing, email, productId) ==
  [thrown |-> FALSE, value |-> queryStripeEntitlement(email, productId)]

\* getStripeClient and queryStripeEntitlement: an exception of any of the
\* provider calls propagates, nothing catches it.
stripeQuery(failing, email, productId) ==
  IF failing = "none"
  THEN [thrown |-> FALSE, value |-> queryStripeEntitlement(email, productId)]
  ELSE [thrown |-> TRUE, value |-> NoEntitlement]

\* checkEntitlement lines 43-45: getStripeClient and queryStripeEntitlement.
\* failing names the provider call that throws, if any.
CheckQuery(p, failing) ==
  /\ UNCHANGED caseVars
  /\ check[p].pc = "query"
  /\ failing \in ProviderCallsOfQuery \cup {"none"}
  /\ LET c == [check[p] EXCEPT !.calls = 1, !.providerFailed = (failing # "none")]
         answer == stripeQuery(failing, c.userEmail, c.productId)
     IN IF ~answer.thrown
        THEN /\ check' = [check EXCEPT ![p] =
                  [c EXCEPT !.pc = "write", !.result = Some(answer.value)]]
             /\ last' = NoRequest
        ELSE /\ check' = [check EXCEPT ![p] = IdleCheck]
             /\ last' = CheckDone(c, None, "providerError", None, 1, 0)
  /\ UNCHANGED <<now, store, writeLog, subs, events, audits, fin, wh,
                 evHist, paid, requests>>

\* checkEntitlement lines 47-73: the write-back and the return.
CheckWrite(p, storeOk) ==
  /\ UNCHANGED caseVars
  /\ check[p].pc = "write"
  /\ LET c == check[p]
         result == c.result[1]
         cacheEntry == resolverCacheEntry(TenantId, c.productId, c.userId,
                                          c.userEmail, result)
     IN IF storeOk
        THEN /\ store' = setEntitlementCache(store, cacheEntry)
             /\ writeLog' = LogWrite(writeLog, cacheEntry, "resolver")
             /\ last' = CheckDone(c, None, "ok", Some(missResult(result)), 1, 1)
        ELSE /\ UNCHANGED <<store, writeLog>>
             /\ last' = CheckDone(c, None, "storeError", None, 1, 0)
  /\ check' = [check EXCEPT ![p] = IdleCheck]
  /\ UNCHANGED <<now, subs, events, audits, fin, wh, evHist, paid, requests>>

\* ---------------------------------- finalize writer: finalizeHandler
finalizeCacheEntryMutDeny(tenant_id, product_id, userId, subscription, planCode, customerEmail) ==
  [tenantProductKey |-> tenantProductKey(tenant_id, product_id),
   userId |-> userId,
   hasAccess |-> FALSE,
   subscriptionId |-> Some(subscription.id),
   planCode |-> Some(planCode),
   status |-> Some(subscription.status),
   currentPeriodEnd |-> Some(toISOString(subscription.current_period_end)),
   userEmail |-> Some(customerEmail),
   ttl |-> now + FINALIZE_ACTIVE_TTL]

\* A finalize row with the short window.
finalizeCacheEntryMutShort(tenant_id, product_id, userId, subscription, planCode, customerEmail) ==
  [tenantProductKey |-> tenantProductKey(tenant_id, product_id),
   userId |-> userId,
   hasAccess |-> TRUE,
   subscriptionId |-> Some(subscription.id),
   planCode |-> Some(planCode),
   status |-> Some(subscription.status),
   currentPeriodEnd |-> Some(toISOString(subscription.current_period_end)),
   userEmail |-> Some(customerEmail),
   ttl |-> now + INACTIVE_TTL]

finalizeCacheEntry(tenant_id, product_id, userId, subscription, planCode, customerEmail) ==
  [tenantProductKey |-> tenantProductKey(tenant_id, product_id),
   userId |-> userId,
   hasAccess |-> TRUE,
   subscriptionId |-> Some(subscription.id),
   planCode |-> Some(planCode),
   status |-> Some(subscription.status),
   currentPeriodEnd |-> Some(toISOString(subscription.current_period_end)),
   userEmail |-> Some(customerEmail),
   ttl |-> now + FINALIZE_ACTIVE_TTL]

\* The early returns of finalizeHandler (lines 32-43): a required field of
\* the body is missing, the tenant is not configured, the product is unknown.
FinalizeRefusals ==
  {"tenant_id", "customer_id", "price_id", "product_id", "notConfigured",
   "productNotFound"}

\* Provider calls finalizeHandler has started when the call named failing
\* throws (all four when none does).
finalizeCalls(failing) ==
  CASE failing \in FinalizeRefusals -> 0
    [] failing = "getStripeClient" -> 1
    [] failing = "prices.retrieve" -> 2
    [] failing = "subscriptions.create" -> 3
    [] OTHER -> 4

\* A catch block that answers as if the request had succeeded.
FinalizeErrorMutSuccess(r, statusCode, failing) ==
  [op |-> "finalize", outcome |-> "ok", key |-> r.key, tenant |-> r.tenant,
   failed |-> failing, sub |-> r.sub, calls |-> finalizeCalls(failing),
   writes |-> 0, callbacks |-> 0,
   response |-> [statusCode |-> 200]]

\* The early error returns (400) and the catch block (500) of finalizeHandler.
FinalizeError(r, statusCode, failing) ==
  [op |-> "finalize", outcome |-> "error", key |-> r.key, tenant |-> r.tenant,
   failed |-> failing, sub |-> r.sub, calls |-> finalizeCalls(failing),
   writes |-> 0, callbacks |-> 0,
   response |-> [statusCode |-> statusCode]]

\* payment_method of the request body (null for $0 plans); it only sets
\* default_payment_method of the subscription, which nothing here reads.
PaymentMethods == {Some("pm_1"), None}

\* Status Stripe gives a subscription it has just created.
CreatedStatuses == {"active", "trialing", "incomplete"}

FinalizeCreateFailures == {"getStripeClient", "prices.retrieve", "subscriptions.create"}
FinalizeWriteFailures == {"customers.retrieve", "setEntitlementCache"}

\* finalizeHandler lines 20-71: validation, price lookup, subscriptions.create.
FinalizeCreate(f, product_id, user_id, price_id, payment_method, customer_id, tenant, failing) ==
  /\ UNCHANGED caseVars
  /\ fin[f].pc = "idle"
  /\ requests < MaxRequests
  /\ requests' = requests + 1
  /\ product_id \in Products
  /\ failing \in FinalizeCreateFailures \cup {"none"}
  /\ LET r == [IdleFinalize EXCEPT !.product_id = product_id, !.user_id = user_id,
                 !.price_id = price_id, !.customer_id = customer_id,
                 !.payment_method = payment_method, !.tenant = tenant]
     IN IF ~tenantConfigured(tenant)
        THEN /\ last' = FinalizeError(r, 400, "notConfigured")
             /\ UNCHANGED <<fin, subs, events>>
        ELSE IF failing = "none"
        THEN /\ Len(subs) < MaxSubs
             /\ \E status \in CreatedStatuses :
                  /\ subs' = Append(subs,
                       [customer |-> customer_id, price |-> price_id, status |-> status,
                        paywall_product |-> Some(product_id), user_id |-> None,
                        current_period_end |-> PeriodEnd, canceledAt |-> 0,
                        cancel_at_period_end |-> FALSE])
                  /\ events' = Emit("customer.subscription.created", Len(subs) + 1, status)
                  /\ fin' = [fin EXCEPT ![f] =
                       [r EXCEPT !.pc = "write", !.sub = Len(subs) + 1,
                                 !.status = status]]
             /\ last' = NoRequest
        ELSE /\ last' = FinalizeError(r, 500, failing)
             /\ UNCHANGED <<fin, subs, events>>
  /\ UNCHANGED <<now, store, writeLog, audits, check, wh, evHist, paid>>

\* finalizeHandler lines 32-35: the first required field the body lacks.
missingField(tenant_id, customer_id, price_id, product_id) ==
  IF ~Truthy(tenant_id) THEN "tenant_id"
  ELSE IF ~Truthy(customer_id) THEN "customer_id"
  ELSE IF ~Truthy(price_id) THEN "price_id"
  ELSE IF ~Truthy(product_id) THEN "product_id"
  ELSE "none"

\* What the body of a finalize request can carry in its required fields.
BodyTenantIds == {None, Some(TenantId)}
BodyCustomerIds == {None, Some("cus_1")}
BodyPriceIds == {None, Some("price_pro")}
BodyProductIds == {None, Some(""), Some("p1"), Some("p2")}

\* finalizeHandler lines 20-43 for a request that ends there: a required
\* field is missing (400), the tenant is not configured (400), or
\* db.getProduct finds no product of that id (404). A request with all its
\* fields for a registered product is the case of FinalizeCreate.
FinalizeRefuse(f, tenant_id, customer_id, price_id, product_id, tenant) ==
  /\ UNCHANGED caseVars
  /\ fin[f].pc = "idle"
  /\ requests < MaxRequests
  /\ requests' = requests + 1
  /\ LET missing == missingField(tenant_id, customer_id, price_id, product_id)
         r == [IdleFinalize EXCEPT !.tenant = tenant]
     IN /\ IF missing # "none" THEN TRUE ELSE product_id[1] \notin Products
        /\ last' = IF missing # "none" THEN FinalizeError(IdleFinalize, 400, missing)
                   ELSE IF ~tenantConfigured(tenant)
                   THEN FinalizeError(r, 400, "notConfigured")
                   ELSE FinalizeError(r, 404, "productNotFound")
  /\ UNCHANGED <<now, store, writeLog, subs, events, audits, check, fin, wh,
                 evHist, paid>>

\* A finalize that writes its row before it looks the customer up.
FinalizeWriteMutWriteFirst(f, failing) ==
  /\ UNCHANGED caseVars
  /\ fin[f].pc = "write"
  /\ failing \in FinalizeWriteFailures \cup {"none"}
  /\ LET r == fin[f]
         stripeProduct == PriceProduct(r.price_id)
         planCode == OrElse(stripeProduct.plan_code, stripeProduct.id)
         subscription == [id |-> subscriptionId(r.sub), status |-> r.status,
                          current_period_end |-> subs[r.sub].current_period_end]
         customerEmail == OrElse(CustomerEmail(r.customer_id), "")
         userId == OrElse(r.user_id, customerEmail)
         cacheEntry == finalizeCacheEntry(TenantId, r.product_id, userId,
                                          subscription, planCode, customerEmail)
     IN IF failing # "setEntitlementCache"
        THEN /\ store' = setEntitlementCache(store, cacheEntry)
             /\ writeLog' = LogWrite(writeLog, cacheEntry, "finalize")
             /\ IF failing = "none"
                THEN /\ fin' = [fin EXCEPT ![f] =
                          [r EXCEPT !.pc = "return",
                                    !.key = Some(<<cacheEntry.tenantProductKey,
                                                   cacheEntry.userId>>)]]
                     /\ last' = NoRequest
                ELSE /\ fin' = [fin EXCEPT ![f] = IdleFinalize]
                     /\ last' = FinalizeError(r, 500, failing)
        ELSE /\ fin' = [fin EXCEPT ![f] = IdleFinalize]
             /\ last' = FinalizeError(r, 500, failing)
             /\ UNCHANGED <<store, writeLog>>
  /\ UNCHANGED <<now, subs, events, audits, check, wh, evHist, paid, requests>>

\* finalizeHandler lines 73-98: customer lookup and the synchronous cache write.
FinalizeWrite(f, failing) ==
  /\ UNCHANGED caseVars
  /\ fin[f].pc = "write"
  /\ failing \in FinalizeWriteFailures \cup {"none"}
  /\ LET r == fin[f]
         stripeProduct == PriceProduct(r.price_id)
         planCode == OrElse(stripeProduct.plan_code, stripeProduct.id)
         subscription == [id |-> subscriptionId(r.sub), status |-> r.status,
                          current_period_end |-> subs[r.sub].current_period_end]
         customerEmail == OrElse(CustomerEmail(r.customer_id), "")
         userId == OrElse(r.user_id, customerEmail)
         cacheEntry == finalizeCacheEntry(TenantId, r.product_id, userId,
                                          subscription, planCode, customerEmail)
     IN IF failing = "none"
        THEN /\ store' = setEntitlementCache(store, cacheEntry)
             /\ writeLog' = LogWrite(writeLog, cacheEntry, "finalize")
             /\ fin' = [fin EXCEPT ![f] =
                  [r EXCEPT !.pc = "return",
                            !.key = Some(<<cacheEntry.tenantProductKey, cacheEntry.userId>>)]]
             /\ last' = NoRequest
        ELSE /\ fin' = [fin EXCEPT ![f] = IdleFinalize]
             /\ last' = FinalizeError(r, 500, failing)
             /\ UNCHANGED <<store, writeLog>>
  /\ UNCHANGED <<now, subs, events, audits, check, wh, evHist, paid, requests>>

\* A URL is the sequence of its parts (origin, then path pieces), so that the
\* empty string is the empty sequence and a prefix of the string is a prefix
\* of the sequence.
AllowedUrl == <<"https://app.example">>
ReturnUrls ==
  {None, Some(<<"https://app.example", "/done">>), Some(<<"https://evil.example">>)}

\* Product.allowedReturnUrls of the registered product.
allowedReturnUrls(product_id) ==
  IF product_id = "p1" THEN <<AllowedUrl>> ELSE <<>>

\* String.prototype.startsWith
startsWith(str, prefix) ==
  /\ Len(prefix) <= Len(str)
  /\ SubSeq(str, 1, Len(prefix)) = prefix

\* finalizeHandler lines 124-128: let redirectUrl = return_url || ''; the first
\* allowed URL is used only when the request carries none.
redirectUrl(return_url, allowed) ==
  LET requested == OrElse(return_url, <<>>)
  IN IF requested = <<>> /\ Len(allowed) > 0 THEN allowed[1] ELSE requested

\* A handler that lets the exception of the callback reach its outer catch.
finalizeSuccessMutCallbackFatal(r, return_url, callbackOk) ==
  IF callbackOk \/ ~Truthy(subscriptionCallbackUrl(r.product_id))
  THEN [op |-> "finalize", outcome |-> "ok", key |-> r.key[1],
        tenant |-> r.tenant, failed |-> "none", sub |-> r.sub,
        calls |-> finalizeCalls("none"), writes |-> 1,
        callbacks |-> IF Truthy(subscriptionCallbackUrl(r.product_id)) THEN 1 ELSE 0,
        callbackFailed |-> FALSE,
        product_id |-> r.product_id,
        payment_method |-> r.payment_method, return_url |-> return_url,
        response |->
          [statusCode |-> 200,
           subscription_id |-> subscriptionId(r.sub),
           status |-> r.status,
           plan_code |-> OrElse(PriceProduct(r.price_id).plan_code,
                                PriceProduct(r.price_id).id),
           redirect_url |-> redirectUrl(return_url, allowedReturnUrls(r.product_id))]]
  ELSE [op |-> "finalize", outcome |-> "error", key |-> r.key[1],
        tenant |-> r.tenant, failed |-> "callback", sub |-> r.sub,
        calls |-> finalizeCalls("none"), writes |-> 1, callbacks |-> 1,
        callbackFailed |-> TRUE,
        product_id |-> r.product_id,
        payment_method |-> r.payment_method, return_url |-> return_url,
        response |-> [statusCode |-> 500]]

\* finalizeHandler lines 100-135: the callback runs in a try/catch of its own
\* ("Don't fail the whole operation if callback fails"), then the success
\* response is built.
finalizeSuccess(r, return_url, callbackOk) ==
  LET stripeProduct == PriceProduct(r.price_id)
      called == Truthy(subscriptionCallbackUrl(r.product_id))
  IN [op |-> "finalize", outcome |-> "ok", key |-> r.key[1],
      tenant |-> r.tenant, failed |-> "none", sub |-> r.sub,
      calls |-> finalizeCalls("none"), writes |-> 1,
      callbacks |-> IF called THEN 1 ELSE 0,
      callbackFailed |-> called /\ ~callbackOk,
      product_id |-> r.product_id,
      payment_method |-> r.payment_method, return_url |-> return_url,
      response |->
        [statusCode |-> 200,
         subscription_id |-> subscriptionId(r.sub),
         status |-> r.status,
         plan_code |-> OrElse(stripeProduct.plan_code, stripeProduct.id),
         redirect_url |-> redirectUrl(return_url, allowedReturnUrls(r.product_id))]]

\* finalizeHandler lines 100-135: product callback and the success response.
\* return_url comes with the request body and is not used before this point.
FinalizeReturn(f, return_url, callbackOk) ==
  /\ UNCHANGED caseVars
  /\ fin[f].pc = "return"
  /\ (~Truthy(subscriptionCallbackUrl(fin[f].product_id)) => callbackOk)
  /\ LET r == fin[f]
     IN /\ last' = finalizeSuccess(r, return_url, callbackOk)
        /\ paid' = IF subs[r.sub].status = "active"
                   THEN [paid EXCEPT ![r.key[1]] = r.sub]
                   ELSE paid
  /\ fin' = [fin EXCEPT ![f] = IdleFinalize]
  /\ UNCHANGED <<now, store, writeLog, subs, events, audits, check, wh,
                 evHist, requests>>

\* ------------------------------------------------ cancelHandler
CancelFailures == {"getStripeClient", "subscriptions.update"}

\* A cancel that revokes the subscriber's row itself.
CancelMutRevoke(i, failing) ==
  /\ UNCHANGED caseVars
  /\ requests < MaxRequests
  /\ requests' = requests + 1
  /\ failing \in CancelFailures \cup {"none"}
  /\ IF failing = "none" /\ i \in 1..Len(subs) /\ subs[i].status # "canceled"
     THEN /\ Len(events) < MaxEvents
          /\ subs' = [subs EXCEPT ![i].cancel_at_period_end = TRUE]
          /\ events' = Emit("customer.subscription.updated", i, subs[i].status)
          /\ store' = [k \in StoreKeys |->
                         IF store[k] # None
                              /\ store[k][1].subscriptionId = Some(subscriptionId(i))
                         THEN Some([store[k][1] EXCEPT !.hasAccess = FALSE])
                         ELSE store[k]]
          /\ last' = [op |-> "cancel", outcome |-> "ok",
                       response |->
                         [statusCode |-> 200,
                          subscription_id |-> subscriptionId(i),
                          status |-> subs[i].status,
                          cancel_at_period_end |-> TRUE,
                          current_period_end |->
                            toISOString(subs[i].current_period_end)]]
     ELSE /\ last' = [op |-> "cancel", outcome |-> "error",
                       response |-> [statusCode |-> 500]]
          /\ UNCHANGED <<subs, events, store>>
  /\ UNCHANGED <<now, writeLog, audits, check, fin, wh, evHist, paid>>

\* cancelHandler: stripe.subscriptions.update(id, { cancel_at_period_end: true })
\* and the response. Stripe rejects the update of a subscription it does not
\* know or that is canceled already.
Cancel(i, failing) ==
  /\ UNCHANGED caseVars
  /\ requests < MaxRequests
  /\ requests' = requests + 1
  /\ failing \in CancelFailures \cup {"none"}
  /\ IF failing = "none" /\ i \in 1..Len(subs) /\ subs[i].status # "canceled"
     THEN /\ Len(events) < MaxEvents
          /\ subs' = [subs EXCEPT ![i].cancel_at_period_end = TRUE]
          /\ events' = Emit("customer.subscription.updated", i, subs[i].status)
          /\ last' = [op |-> "cancel", outcome |-> "ok",
                       response |->
                         [statusCode |-> 200,
                          subscription_id |-> subscriptionId(i),
                          status |-> subs[i].status,
                          cancel_at_period_end |-> TRUE,
                          current_period_end |->
                            toISOString(subs[i].current_period_end)]]
     ELSE /\ last' = [op |-> "cancel", outcome |-> "error",
                       response |-> [statusCode |-> 500]]
          /\ UNCHANGED <<subs, events>>
  /\ UNCHANGED <<now, store, writeLog, audits, check, fin, wh, evHist, paid>>

\* ------------------------------------------------ listHandler
\* stripe.subscriptions.list({ customer }): without a status filter Stripe
\* lists the subscriptions that are not canceled, newest first.
RECURSIVE subscriptionsOf(_, _)
subscriptionsOf(customer, i) ==
  IF i = 0 THEN <<>>
  ELSE IF subs[i].customer = customer /\ subs[i].status # "canceled"
       THEN <<i>> \o subscriptionsOf(customer, i - 1)
       ELSE subscriptionsOf(customer, i - 1)

\* listHandler lines 209-222: one entry of the answer.
listEntry(i) ==
  LET stripeProduct == PriceProduct(subs[i].price)
  IN [subscription_id |-> subscriptionId(i),
      status |-> subs[i].status,
      plan_code |-> OrElse(stripeProduct.plan_code, stripeProduct.id),
      current_period_end |-> toISOString(subs[i].current_period_end),
      cancel_at_period_end |-> subs[i].cancel_at_period_end]

ListFailures == {"getStripeClient", "customers.list", "subscriptions.list"}

\* listHandler: customers.list, subscriptions.list and the answer; email is
\* the query parameter, absent or empty for a request without it.
List(email, failing) ==
  /\ UNCHANGED caseVars
  /\ requests < MaxRequests
  /\ requests' = requests + 1
  /\ failing \in ListFailures \cup {"none"}
  /\ last' =
       IF ~Truthy(email)
       THEN [op |-> "list", outcome |-> "error", response |-> [statusCode |-> 400]]
       ELSE IF failing \in {"getStripeClient", "customers.list"}
       THEN [op |-> "list", outcome |-> "error", response |-> [statusCode |-> 500]]
       ELSE IF customersList(email[1]) = {}
       THEN [op |-> "list", outcome |-> "ok",
             response |-> [statusCode |-> 200, subscriptions |-> <<>>]]
       ELSE IF failing = "subscriptions.list"
       THEN [op |-> "list", outcome |-> "error", response |-> [statusCode |-> 500]]
       ELSE LET customer == CHOOSE c \in customersList(email[1]) : TRUE
                listed == subscriptionsOf(customer, Len(subs))
            IN [op |-> "list", outcome |-> "ok",
                response |->
                  [statusCode |-> 200,
                   subscriptions |-> [n \in 1..Len(listed) |-> listEntry(listed[n])]]]
  /\ UNCHANGED <<now, store, writeLog, subs, events, audits, check, fin, wh,
                 evHist, paid>>

\* ------------------------------------ webhook reconciler: handler
\* The subscription object an event carries: the status is the one at
\* emission, everything else never changes after creation.
payloadSubscription(ev) ==
  [id |-> subscriptionId(ev.sub), status |-> ev.status,
   customer |-> subs[ev.sub].customer,
   paywall_product |-> subs[ev.sub].paywall_product,
   user_id |-> subs[ev.sub].user_id,
   current_period_end |-> subs[ev.sub].current_period_end,
   price |-> subs[ev.sub].price]

\* stripe.subscriptions.retrieve(id, { expand }): the subscription as it is now.
subscriptionsRetrieve(i) ==
  [id |-> subscriptionId(i), status |-> subs[i].status,
   customer |-> subs[i].customer,
   paywall_product |-> subs[i].paywall_product,
   user_id |-> subs[i].user_id,
   current_period_end |-> subs[i].current_period_end,
   price |-> subs[i].price]

\* How items.data[0].price.product arrives: "object" (expanded), "id" (a bare
\* product id string, which has no .metadata and no .id) or "none" (absent,
\* so the handler re-fetches the subscription with the product expanded).
ProductForms == {"object", "id", "none"}

productView(form, price) ==
  IF form = "id"
  THEN [id |-> None, plan_code |-> None, audience |-> None]
  ELSE [id |-> Some(PriceProduct(price).id),
        plan_code |-> PriceProduct(price).plan_code,
        audience |-> PriceProduct(price).audience]

\* productId / userId resolution shared by the update and the revoke path.
targetProductId(subscription, stripeProduct) ==
  OrElse(subscription.paywall_product, OrElse(stripeProduct.audience, WILDCARD))

targetUserId(subscription, email) == OrElse(subscription.user_id, email)

\* A row that stays fresh until the end of the billing period.
updateCacheEntryMutPeriodEnd(tenantId, subscription, stripeProduct, email) ==
  [tenantProductKey |->
     tenantProductKey(tenantId, targetProductId(subscription, stripeProduct)),
   userId |-> targetUserId(subscription, email),
   hasAccess |-> subscription.status \in AccessStatuses,
   subscriptionId |-> Some(subscription.id),
   planCode |-> Some(OrElse(stripeProduct.plan_code, OrElse(stripeProduct.id, ""))),
   status |-> Some(subscription.status),
   currentPeriodEnd |-> Some(toISOString(subscription.current_period_end)),
   userEmail |-> Some(email),
   ttl |-> subscription.current_period_end]

updateCacheEntry(tenantId, subscription, stripeProduct, email) ==
  [tenantProductKey |->
     tenantProductKey(tenantId, targetProductId(subscription, stripeProduct)),
   userId |-> targetUserId(subscription, email),
   hasAccess |-> subscription.status \in AccessStatuses,
   subscriptionId |-> Some(subscription.id),
   planCode |-> Some(OrElse(stripeProduct.plan_code, OrElse(stripeProduct.id, ""))),
   status |-> Some(subscription.status),
   currentPeriodEnd |-> Some(toISOString(subscription.current_period_end)),
   userEmail |-> Some(email),
   ttl |-> now + WEBHOOK_ACTIVE_TTL]

revokeTtlMutLong == ACTIVE_TTL

revokeTtl == REVOKE_TTL

revokeCacheEntry(tenantId, subscription, stripeProduct, email) ==
  [tenantProductKey |->
     tenantProductKey(tenantId, targetProductId(subscription, stripeProduct)),
   userId |-> targetUserId(subscription, email),
   hasAccess |-> FALSE,
   subscriptionId |-> Some(subscription.id),
   planCode |-> None,
   status |-> Some(subscription.status),
   currentPeriodEnd |-> None,
   userEmail |-> Some(email),
   ttl |-> now + revokeTtl]

NoWrite(result) == [result |-> result, entry |-> None, writer |-> ""]

WebhookFailures == {"customers.retrieve", "subscriptions.retrieve", "setEntitlementCache"}

\* A reconciler that treats a customer without email as a failure.
fromSubscriptionMutNoEmailError(writer, subscription, form, failing) ==
  IF failing = "customers.retrieve" THEN NoWrite("error")
  ELSE IF ~Truthy(CustomerEmail(subscription.customer)) THEN NoWrite("error")
  ELSE IF form = "none" /\ failing = "subscriptions.retrieve" THEN NoWrite("error")
  ELSE IF failing = "setEntitlementCache" THEN NoWrite("error")
  ELSE LET email == CustomerEmail(subscription.customer)[1]
           stripeProduct == productView(form, subscription.price)
       IN [result |-> "success", writer |-> writer,
           entry |-> Some(IF writer = "revoke"
                          THEN revokeCacheEntry(TenantId, subscription, stripeProduct, email)
                          ELSE updateCacheEntry(TenantId, subscription, stripeProduct, email))]

\* updateEntitlementFromSubscription / revokeEntitlementFromSubscription:
\* the row to write, or the reason there is none.
fromSubscription(writer, subscription, form, failing) ==
  IF failing = "customers.retrieve" THEN NoWrite("error")
  ELSE IF ~Truthy(CustomerEmail(subscription.customer)) THEN NoWrite("success")
  ELSE IF form = "none" /\ failing = "subscriptions.retrieve" THEN NoWrite("error")
  ELSE IF failing = "setEntitlementCache" THEN NoWrite("error")
  ELSE LET email == CustomerEmail(subscription.customer)[1]
           stripeProduct == productView(form, subscription.price)
       IN [result |-> "success", writer |-> writer,
           entry |-> Some(IF writer = "revoke"
                          THEN revokeCacheEntry(TenantId, subscription, stripeProduct, email)
                          ELSE updateCacheEntry(TenantId, subscription, stripeProduct, email))]

EventTypes == {"customer.subscription.created", "customer.subscription.updated",
               "customer.subscription.deleted", "invoice.payment_failed"}

\* invoice.payment_failed handled from the status the event was emitted with.
processWebhookEventMutPayload(ev, form, failing) ==
  IF ev.type = "customer.subscription.deleted"
  THEN fromSubscription("revoke", payloadSubscription(ev), form, failing)
  ELSE IF ev.sub = 0 THEN NoWrite("success")
  ELSE fromSubscription("update", payloadSubscription(ev), form, failing)

\* processWebhookEvent: the switch on event.type.
processWebhookEvent(ev, form, failing) ==
  IF ev.type \in {"customer.subscription.created", "customer.subscription.updated"}
  THEN fromSubscription("update", payloadSubscription(ev), form, failing)
  ELSE IF ev.type = "customer.subscription.deleted"
  THEN fromSubscription("revoke", payloadSubscription(ev), form, failing)
  ELSE IF ev.type = "invoice.payment_failed"
  THEN IF ev.sub = 0 THEN NoWrite("success")
       ELSE IF failing = "subscriptions.retrieve" THEN NoWrite("error")
       ELSE fromSubscription("update", subscriptionsRetrieve(ev.sub), "object", failing)
  ELSE NoWrite("success")

\* A reconciler that represents a revocation by the absence of the row.
reconcilerWriteMutDelete(st, out) ==
  IF out.writer = "revoke"
  THEN deleteEntitlementCache(st, TenantId, "p1", out.entry[1].userId)
  ELSE setEntitlementCache(st, out.entry[1])

\* A reconciler that takes the wildcard as "every product" and writes the
\* row of product p1 as well.
reconcilerWriteMutFanOut(st, out) ==
  IF out.entry[1].tenantProductKey = tenantProductKey(TenantId, WILDCARD)
  THEN setEntitlementCache(
         setEntitlementCache(st, out.entry[1]),
         [out.entry[1] EXCEPT !.tenantProductKey = tenantProductKey(TenantId, "p1")])
  ELSE setEntitlementCache(st, out.entry[1])

\* The db.setEntitlementCache(cache) that ends both reconciler functions.
reconcilerWrite(st, out) == setEntitlementCache(st, out.entry[1])

InFlight(e) == {w \in WebhookProcs : wh[w].event = e /\ wh[w].pc \in {"process", "audit"}}

existingAuditMutNever(e) == None

\* An idempotency check that lets an event whose processing failed run again.
existingAuditMutRetryErrors(e) ==
  IF audits[e] # None /\ audits[e][1].result = "error" THEN None ELSE audits[e]

\* db.getWebhookAudit(tenantId, stripeEvent.id)
existingAudit(e) == audits[e]

WebhookDone(e, verification, statusCode, duplicate, writes, result, redelivery) ==
  [op |-> "webhook", event |-> e, writes |-> writes, result |-> result,
   redelivery |-> redelivery, verification |-> verification,
   response |-> [statusCode |-> statusCode, received |-> statusCode = 200,
                 duplicate |-> duplicate]]

\* How a request to the webhook endpoint fares at lines 25-52: the tenant
\* has no webhook secret, the signature header is missing, constructEvent
\* rejects the signature, or the event is verified.
Verifications == {"ok", "noSecret", "noSignature", "badSignature"}

verifiedMutAcceptAll(verification) == TRUE

verified(verification) == verification = "ok"

\* handler lines 20-59: signature verification and the idempotency check.
WebhookStart(w, e, verification) ==
  /\ UNCHANGED caseVars
  /\ wh[w].pc = "idle"
  /\ \A v \in WebhookProcs : ProcBefore(v, w) => wh[v].pc # "idle"
  /\ requests < MaxRequests
  /\ requests' = requests + 1
  /\ verified(verification) => e \in 1..Len(events)
  /\ IF ~verified(verification)
     THEN /\ last' = WebhookDone(0, verification, 400, FALSE, 0, "none", FALSE)
          /\ UNCHANGED <<wh, evHist>>
     ELSE IF existingAudit(e) # None
     THEN /\ last' = WebhookDone(e, verification, 200, TRUE, 0, "none",
                                   evHist[e].auditPuts > 0)
          /\ evHist' = [evHist EXCEPT ![e].overlap = @ \/ InFlight(e) # {}]
          /\ UNCHANGED wh
     ELSE /\ wh' = [wh EXCEPT ![w] =
               [IdleWebhook EXCEPT !.pc = "process", !.event = e,
                                   !.verification = verification,
                                   !.redelivery = (evHist[e].auditPuts > 0)]]
          /\ evHist' = [evHist EXCEPT ![e].overlap = @ \/ InFlight(e) # {}]
          /\ last' = NoRequest
  /\ UNCHANGED <<now, store, writeLog, subs, events, audits, check, fin, paid>>

\* handler lines 61-71: processWebhookEvent inside the try/catch.
WebhookProcess(w, form, failing) ==
  /\ UNCHANGED caseVars
  /\ wh[w].pc = "process"
  /\ form \in ProductForms
  /\ failing \in WebhookFailures \cup {"none"}
  /\ LET e == wh[w].event
         out == processWebhookEvent(events[e], form, failing)
     IN /\ IF out.entry # None
           THEN /\ store' = reconcilerWrite(store, out)
                /\ writeLog' = LogWrite(writeLog, out.entry[1], out.writer)
                /\ evHist' = [evHist EXCEPT ![e].writes = @ + 1]
           ELSE UNCHANGED <<store, writeLog, evHist>>
        /\ wh' = [wh EXCEPT ![w] =
             [@ EXCEPT !.pc = "audit", !.result = out.result,
                       !.writes = IF out.entry # None THEN 1 ELSE 0]]
  /\ last' = NoRequest
  /\ UNCHANGED <<now, subs, events, audits, check, fin, paid, requests>>

\* handler lines 73-90: the conditional audit put and the response.
\* (processedAt and ttl of the audit record are not modelled.)
WebhookAudit(w) ==
  /\ UNCHANGED caseVars
  /\ wh[w].pc = "audit"
  /\ LET e == wh[w].event
         audit == [tenantEventKey |-> tenantProductKey(TenantId, eventId(e)),
                   tenantId |-> TenantId,
                   eventType |-> events[e].type,
                   result |-> wh[w].result]
     IN IF audits[e] = None
        THEN /\ audits' = [audits EXCEPT ![e] = Some(audit)]
             /\ evHist' = [evHist EXCEPT ![e].auditPuts = @ + 1]
             /\ last' = WebhookDone(e, wh[w].verification, 200, FALSE, wh[w].writes, wh[w].result,
                                      wh[w].redelivery)
        ELSE /\ last' = WebhookDone(e, wh[w].verification, 500, FALSE, wh[w].writes, wh[w].result,
                                      wh[w].redelivery)
             /\ UNCHANGED <<audits, evHist>>
  /\ wh' = [wh EXCEPT ![w] = IdleWebhook]
  /\ UNCHANGED <<now, store, writeLog, subs, events, check, fin, paid, requests>>

\* ------------------------------------------------------------------ Next
Next ==
  \/ Tick
  \/ \E i \in 1..MaxSubs, to \in SubStatuses, type \in EventTypes :
       StripeStatusChange(i, to, type)
  \/ \E i \in 1..MaxSubs : StripeCancel(i)
  \/ \E p \in CheckProcs, product_id \in Products, user_id \in UserIdInputs,
        user_email \in Emails, tenant \in Tenants :
       CheckRead(p, product_id, user_id, user_email, tenant)
  \/ \E p \in CheckProcs, failing \in ProviderCallsOfQuery \cup {"none"} :
       CheckQuery(p, failing)
  \/ \E p \in CheckProcs, storeOk \in BOOLEAN : CheckWrite(p, storeOk)
  \/ \E f \in FinalizeProcs, product_id \in Products, user_id \in UserIdInputs,
        price_id \in Prices, payment_method \in PaymentMethods,
        customer_id \in Customers,
        tenant \in Tenants, failing \in FinalizeCreateFailures \cup {"none"} :
       FinalizeCreate(f, product_id, user_id, price_id, payment_method,
                      customer_id, tenant, failing)
  \/ \E f \in FinalizeProcs, failing \in FinalizeWriteFailures \cup {"none"} :
       FinalizeWrite(f, failing)
  \/ \E f \in FinalizeProcs, return_url \in ReturnUrls, callbackOk \in BOOLEAN :
       FinalizeReturn(f, return_url, callbackOk)
  \/ \E i \in 1..MaxSubs, failing \in CancelFailures \cup {"none"} : Cancel(i, failing)
  \/ \E w \in WebhookProcs, e \in 1..MaxEvents, verification \in Verifications :
       WebhookStart(w, e, verification)
  \/ \E w \in WebhookProcs, form \in ProductForms,
        failing \in WebhookFailures \cup {"none"} : WebhookProcess(w, form, failing)
  \/ \E w \in WebhookProcs : WebhookAudit(w)

Spec == Init /\ [][Next]_vars

\* ------------------------------------------------------ audience matching
\* The two places that decide whether a Stripe product's audience metadata
\* covers a product id: the loop of queryStripeEntitlement and the filter of
\* GET /plans. Here strings are sequences of characters.
AudienceChars == {"a", "b", ",", " "}

RECURSIVE CharSeqs(_)
CharSeqs(n) ==
  IF n = 0 THEN {<<>>}
  ELSE CharSeqs(n - 1) \cup
       {Append(cs, c) : cs \in {x \in CharSeqs(n - 1) : Len(x) = n - 1},
                        c \in AudienceChars}

\* metadata.audience: absent, or a string of at most MaxAudienceLen characters
Audiences == {None} \cup {Some(cs) : cs \in CharSeqs(MaxAudienceLen)}
ProductIds == {<<"a">>, <<"b">>, <<"a", "b">>}

\* The string a sequence of characters spells.
RECURSIVE text(_)
text(cs) == IF cs = <<>> THEN "" ELSE Head(cs) \o text(Tail(cs))

\* cs.split(',')
RECURSIVE split(_)
split(cs) ==
  IF cs = <<>> THEN << <<>> >>
  ELSE LET rest == split(Tail(cs))
       IN IF Head(cs) = ","
          THEN << <<>> >> \o rest
          ELSE << <<Head(cs)>> \o Head(rest) >> \o Tail(rest)

RECURSIVE trimStart(_)
trimStart(cs) ==
  IF cs # <<>> /\ Head(cs) = " " THEN trimStart(Tail(cs)) ELSE cs

RECURSIVE trimEnd(_)
trimEnd(cs) ==
  IF cs # <<>> /\ cs[Len(cs)] = " "
  THEN trimEnd(SubSeq(cs, 1, Len(cs) - 1))
  ELSE cs

\* a.trim()
trim(cs) == trimEnd(trimStart(cs))

\* audiences.includes(productId)
includes(list, x) == \E i \in 1..Len(list) : list[i] = x

\* The audience part of the filter of GET /plans.
plansAudienceFilter(audience, productId) ==
  IF audience # None /\ audience[1] # <<>>
  THEN LET parts == split(audience[1])
           audiences == [i \in 1..Len(parts) |-> trim(parts[i])]
       IN includes(audiences, productId)
  ELSE TRUE

\* The audience test of queryStripeEntitlement on the same pair.
queryAudienceTest(audience, productId) ==
  audienceMatches(IF audience = None THEN None ELSE Some(text(audience[1])),
                  text(productId))

AudienceInit ==
  /\ InitTables
  /\ subs = <<>>
  /\ decisionCase = NoDecisionCase
  /\ admin = InitAdmin
  /\ \E audience \in Audiences, productId \in ProductIds :
       audienceCase = [NoAudienceCase EXCEPT !.audience = audience,
                                             !.productId = productId]

EntitlementMatch ==
  /\ audienceCase.query = None
  /\ audienceCase' =
       [audienceCase EXCEPT !.query =
          Some(queryAudienceTest(audienceCase.audience, audienceCase.productId))]
  /\ UNCHANGED <<now, store, writeLog, subs, events, audits, check, fin, wh,
                 evHist, paid, requests, last, decisionCase, admin>>

PlansMatch ==
  /\ audienceCase.plans = None
  /\ audienceCase' =
       [audienceCase EXCEPT !.plans =
          Some(plansAudienceFilter(audienceCase.audience, audienceCase.productId))]
  /\ UNCHANGED <<now, store, writeLog, subs, events, audits, check, fin, wh,
                 evHist, paid, requests, last, decisionCase, admin>>

AudienceNext == EntitlementMatch \/ PlansMatch

AudienceSpec == AudienceInit /\ [][AudienceNext]_vars

\* ------------------------------------- billing query and reconciler cases
\* queryStripeEntitlement and processWebhookEvent as functions of the Stripe
\* account and their input: the account is any list of at most MaxCaseSubs
\* subscriptions, the input any email or any event about the account.
CaseEmails == {"e1", "e2"}

CaseSubscriptions ==
  [customer : AccountCustomers, price : AccountPrices, status : SubStatuses,
   paywall_product : {Some("p1")}, user_id : {None},
   current_period_end : {PeriodEnd}, canceledAt : {0},
   cancel_at_period_end : {FALSE}]

\* Subscriptions an event can be about: made by finalizeHandler (metadata
\* paywall_product, no user_id) or made outside of it, in the Stripe
\* dashboard or by another integration (any metadata).
EventSubscriptions ==
  [customer : AccountCustomers, price : AccountPrices, status : SubStatuses,
   paywall_product : {None, Some("p1")}, user_id : {None, Some("u1")},
   current_period_end : {PeriodEnd}, canceledAt : {0},
   cancel_at_period_end : {FALSE}]

RECURSIVE Accounts(_, _)
Accounts(n, subscriptions) ==
  IF n = 0 THEN {<<>>}
  ELSE Accounts(n - 1, subscriptions) \cup
       {Append(a, x) : a \in {y \in Accounts(n - 1, subscriptions) : Len(y) = n - 1},
                       x \in subscriptions}

\* The events Stripe can emit about an account: a deleted subscription is
\* canceled; an invoice is of one of the subscriptions (the status it
\* carries is the one at emission) or of none.
CaseEvents(account) ==
  {ev \in [type : EventTypes, sub : 0..Len(account), status : SubStatuses] :
     /\ ev.type # "invoice.payment_failed" => ev.sub # 0
     /\ ev.type = "customer.subscription.deleted" =>
          (ev.status = "canceled" /\ account[ev.sub].status = "canceled")
     /\ ev.sub = 0 => ev.status = "past_due"}

\* Rows the reconciler can address and a later check can read.
CaseProducts == {"p1", "p2"}
CaseUsers == {"e1", "e3", "u1"}
CaseStoreKeys ==
  {tenantProductKey(TenantId, p) : p \in CaseProducts \cup {WILDCARD}} \X CaseUsers

\* The row an earlier finalize for product p1 has left for a user.
PriorRow(userId) ==
  [tenantProductKey |-> tenantProductKey(TenantId, "p1"),
   userId |-> userId,
   hasAccess |-> TRUE,
   subscriptionId |-> Some("sub_0"),
   planCode |-> Some("pro"),
   status |-> Some("active"),
   currentPeriodEnd |-> Some(toISOString(PeriodEnd)),
   userEmail |-> Some(userId),
   ttl |-> FINALIZE_ACTIVE_TTL]

\* The store an event meets: empty, or holding the p1 rows of the users.
CaseStores ==
  {[k \in CaseStoreKeys |-> None],
   [k \in CaseStoreKeys |->
      IF k[1] = tenantProductKey(TenantId, "p1") THEN Some(PriorRow(k[2])) ELSE None]}

DecisionInit ==
  /\ InitRequests
  /\ audienceCase = NoAudienceCase
  /\ admin = InitAdmin
  /\ \/ /\ subs \in Accounts(MaxCaseSubs, CaseSubscriptions)
        /\ store = [k \in CaseStoreKeys |-> None]
        /\ \E email \in CaseEmails, productId \in Products :
             decisionCase = [NoDecisionCase EXCEPT !.kind = "query", !.email = email,
                                                   !.productId = productId]
     \/ /\ subs \in Accounts(MaxEventSubs, EventSubscriptions)
        /\ store \in CaseStores
        /\ \E ev \in CaseEvents(subs) :
             decisionCase = [NoDecisionCase EXCEPT !.kind = "event", !.event = ev]

QueryDecision ==
  /\ decisionCase.kind = "query" /\ decisionCase.out = None
  /\ decisionCase' =
       [decisionCase EXCEPT !.out =
          Some(queryStripeEntitlement(decisionCase.email, decisionCase.productId))]
  /\ UNCHANGED <<now, store, writeLog, subs, events, audits, check, fin, wh,
                 evHist, paid, requests, last, audienceCase, admin>>

\* processWebhookEvent and the store write that ends it.
EventDecision(form, failing) ==
  /\ decisionCase.kind = "event" /\ decisionCase.out = None
  /\ LET out == processWebhookEvent(decisionCase.event, form, failing)
     IN /\ decisionCase' = [decisionCase EXCEPT !.out = Some(out)]
        /\ store' = IF out.entry # None THEN reconcilerWrite(store, out) ELSE store
  /\ UNCHANGED <<now, writeLog, subs, events, audits, check, fin, wh,
                 evHist, paid, requests, last, audienceCase, admin>>

\* checkEntitlement lines 28-30 of a check that comes after the event: the
\* read of the row of (tenant, productId, userId) and the freshness test.
LaterCheck(productId, userId) ==
  /\ decisionCase.kind = "event" /\ decisionCase.out # None
  /\ decisionCase.later = None
  /\ LET cached == getEntitlementCache(TenantId, productId, userId)
     IN decisionCase' =
          [decisionCase EXCEPT !.later =
             Some([productId |-> productId, userId |-> userId,
                   cached |-> cached, hit |-> isFresh(cached)])]
  /\ UNCHANGED <<now, store, writeLog, subs, events, audits, check, fin, wh,
                 evHist, paid, requests, last, audienceCase, admin>>

DecisionNext ==
  \/ QueryDecision
  \/ \E form \in ProductForms, failing \in WebhookFailures \cup {"none"} :
       EventDecision(form, failing)
  \/ \E productId \in CaseProducts, userId \in CaseUsers :
       LaterCheck(productId, userId)

DecisionSpec == DecisionInit /\ [][DecisionNext]_vars

\* ----------------------------------------------- admin surface and API keys
\* The handlers behind requireAdminKey, the check and the cancel handler with
\* their API key, over the tenants, products, API key and secrets tables and
\* the Stripe client cache of the process. Every Stripe account is empty here.
AdminStoreKeys ==
  {tenantProductKey(t, p) : t \in TenantIds, p \in AdminProductIds} \X Emails

\* The entitlement rows of one tenant.
TenantRows(tenantId) ==
  {tenantProductKey(tenantId, p) : p \in AdminProductIds} \X Emails

\* db.getApiKeyByHash
getApiKeyByHash(apiKeys, apiKeyHash) ==
  IF \E r \in apiKeys : r.apiKeyHash = apiKeyHash
  THEN Some(CHOOSE r \in apiKeys : r.apiKeyHash = apiKeyHash)
  ELSE None

\* middleware/auth.ts
resolveApiKey(apiKeys, rawKey) ==
  IF ~Truthy(rawKey) THEN None
  ELSE LET record == getApiKeyByHash(apiKeys, hashApiKey(rawKey[1]))
       IN IF record = None THEN None
          ELSE Some([tenantId |-> record[1].tenantId,
                     productId |-> record[1].productId,
                     keyType |-> record[1].keyType])

requireAdminKey(apiKeys, rawKey) ==
  LET resolved == resolveApiKey(apiKeys, rawKey)
  IN IF resolved = None \/ resolved[1].keyType # "admin" THEN None ELSE resolved

requireAnyKey(apiKeys, rawKey) == resolveApiKey(apiKeys, rawKey)

\* A handler that trusts any admin key for any tenant.
accessDeniedMutNever(auth, tenantId) == FALSE

\* `auth.tenantId !== tenantId` of every admin handler.
accessDenied(auth, tenantId) == auth.tenantId # tenantId

\* The first lines of every admin handler: 401, 403, or 0 to go on.
adminGate(rawKey, tenantId) ==
  LET auth == requireAdminKey(admin.apiKeys, rawKey)
  IN IF auth = None THEN 401
     ELSE IF accessDenied(auth[1], tenantId) THEN 403
     ELSE 0

\* db.updateTenant: an UpdateCommand that SETs the attributes whose value is
\* not undefined, on the item of the key (created if there is none).
updateTenant(tenants, tenantId, updates) ==
  LET item == IF tenants[tenantId] = None
              THEN [name |-> None, credentialsConfigured |-> FALSE,
                    stripePublishableKey |-> None]
              ELSE tenants[tenantId][1]
  IN [tenants EXCEPT ![tenantId] =
        Some([f \in DOMAIN item |->
                IF f \in DOMAIN updates /\ updates[f] # None
                THEN updates[f][1] ELSE item[f]])]

\* The request an admin handler has answered.
AdminDone(op, rawKey, tenantId, statusCode) ==
  [op |-> op, key |-> rawKey, tenantId |-> tenantId, statusCode |-> statusCode]

AdminOps ==
  {"tenants.get", "tenants.update", "tenants.delete",
   "credentials.set", "credentials.status", "credentials.delete",
   "products.create", "products.list", "products.get", "products.update",
   "products.delete"}

MaxAdminRequests == 3
MaxKeySeq == 4

\* What every handler of this part does first and leaves alone.
AdminRequest ==
  /\ requests < MaxAdminRequests
  /\ requests' = requests + 1
  /\ UNCHANGED <<now, writeLog, subs, events, audits, check, fin, wh, evHist,
                 paid, audienceCase, decisionCase>>

\* tenants.ts getHandler, credentials.ts getStatusHandler: gate, lookup, answer.
TenantRead(op, rawKey, tenantId) ==
  /\ AdminRequest
  /\ op \in {"tenants.get", "credentials.status"}
  /\ LET gate == adminGate(rawKey, tenantId)
     IN last' = AdminDone(op, rawKey, tenantId,
                  IF gate # 0 THEN gate
                  ELSE IF admin.tenants[tenantId] = None THEN 404 ELSE 200)
  /\ UNCHANGED <<admin, store>>

\* tenants.ts updateHandler
TenantUpdate(rawKey, tenantId, name) ==
  /\ AdminRequest
  /\ LET gate == adminGate(rawKey, tenantId)
     IN IF gate # 0
        THEN /\ last' = AdminDone("tenants.update", rawKey, tenantId, gate)
             /\ UNCHANGED admin
        ELSE /\ admin' = [admin EXCEPT !.tenants =
                  updateTenant(@, tenantId, [name |-> Some(name)])]
             /\ last' = AdminDone("tenants.update", rawKey, tenantId, 200)
  /\ UNCHANGED store

\* tenants.ts deleteHandler: the secret, the API keys, the products and the
\* tenant record go; entitlement rows and the client cache stay.
TenantDelete(rawKey, tenantId) ==
  /\ AdminRequest
  /\ LET gate == adminGate(rawKey, tenantId)
     IN IF gate # 0
        THEN /\ last' = AdminDone("tenants.delete", rawKey, tenantId, gate)
             /\ UNCHANGED admin
        ELSE IF admin.tenants[tenantId] = None
        THEN /\ last' = AdminDone("tenants.delete", rawKey, tenantId, 404)
             /\ UNCHANGED admin
        ELSE /\ admin' =
                  [admin EXCEPT
                     !.secrets[tenantId] = None,
                     !.apiKeys = {r \in @ : r.tenantId # tenantId},
                     !.products = [k \in DOMAIN @ |->
                                     IF k[1] = tenantId THEN None ELSE @[k]],
                     !.tenants[tenantId] = None]
             /\ last' = AdminDone("tenants.delete", rawKey, tenantId, 200)
  /\ UNCHANGED store

\* credentials.ts setHandler: validation, then storeCredentials and
\* updateTenant. valid is the answer of the test call to Stripe.
CredentialsSet(rawKey, tenantId, stripe_secret_key, valid) ==
  /\ AdminRequest
  /\ LET gate == adminGate(rawKey, tenantId)
         answer(statusCode) == AdminDone("credentials.set", rawKey, tenantId, statusCode)
     IN IF gate # 0
        THEN last' = answer(gate) /\ UNCHANGED admin
        ELSE IF admin.tenants[tenantId] = None
        THEN last' = answer(404) /\ UNCHANGED admin
        ELSE IF ~Truthy(stripe_secret_key) \/ ~valid
        THEN last' = answer(400) /\ UNCHANGED admin
        ELSE /\ admin' =
                  [admin EXCEPT
                     !.secrets[tenantId] = stripe_secret_key,
                     !.tenants = updateTenant(@, tenantId,
                        [stripePublishableKey |-> Some(Some(PublishableKey)),
                         credentialsConfigured |-> Some(TRUE)])]
             /\ last' = answer(200)
  /\ UNCHANGED store

\* credentials.ts deleteHandler: deleteCredentials and updateTenant, in which
\* stripePublishableKey: undefined sets nothing.
CredentialsDelete(rawKey, tenantId) ==
  /\ AdminRequest
  /\ LET gate == adminGate(rawKey, tenantId)
         answer(statusCode) == AdminDone("credentials.delete", rawKey, tenantId, statusCode)
     IN IF gate # 0
        THEN last' = answer(gate) /\ UNCHANGED admin
        ELSE IF admin.tenants[tenantId] = None
        THEN last' = answer(404) /\ UNCHANGED admin
        ELSE /\ admin' =
                  [admin EXCEPT
                     !.secrets[tenantId] = None,
                     !.tenants = updateTenant(@, tenantId,
                        [stripePublishableKey |-> None,
                         credentialsConfigured |-> Some(FALSE)])]
             /\ last' = answer(200)
  /\ UNCHANGED store

\* products.ts createHandler: the product and its product-scoped key.
ProductCreate(rawKey, tenantId, product_id) ==
  /\ AdminRequest
  /\ LET gate == adminGate(rawKey, tenantId)
         answer(statusCode) == AdminDone("products.create", rawKey, tenantId, statusCode)
     IN IF gate # 0
        THEN last' = answer(gate) /\ UNCHANGED admin
        ELSE IF admin.tenants[tenantId] = None
        THEN last' = answer(404) /\ UNCHANGED admin
        ELSE IF ~Truthy(product_id)
        THEN last' = answer(400) /\ UNCHANGED admin
        ELSE IF admin.products[<<tenantId, product_id[1]>>] # None
        THEN last' = answer(409) /\ UNCHANGED admin
        ELSE /\ admin.keySeq < MaxKeySeq
             /\ admin' =
                  [admin EXCEPT
                     !.products[<<tenantId, product_id[1]>>] =
                        Some([productName |-> "n1"]),
                     !.apiKeys = @ \cup
                        {ApiKeyRecord(generateApiKey("product", admin.keySeq + 1),
                                      tenantId, product_id[1], "product")},
                     !.keySeq = @ + 1]
             /\ last' = answer(201)
  /\ UNCHANGED store

\* products.ts listHandler and getHandler.
ProductRead(op, rawKey, tenantId, productId) ==
  /\ AdminRequest
  /\ op \in {"products.list", "products.get"}
  /\ LET gate == adminGate(rawKey, tenantId)
     IN last' = AdminDone(op, rawKey, tenantId,
                  IF gate # 0 THEN gate
                  ELSE IF op = "products.get" /\ admin.products[<<tenantId, productId>>] = None
                  THEN 404 ELSE 200)
  /\ UNCHANGED <<admin, store>>

\* products.ts updateHandler
ProductUpdate(rawKey, tenantId, productId, product_name) ==
  /\ AdminRequest
  /\ LET gate == adminGate(rawKey, tenantId)
         answer(statusCode) == AdminDone("products.update", rawKey, tenantId, statusCode)
     IN IF gate # 0
        THEN last' = answer(gate) /\ UNCHANGED admin
        ELSE IF admin.products[<<tenantId, productId>>] = None
        THEN last' = answer(404) /\ UNCHANGED admin
        ELSE /\ admin' = [admin EXCEPT !.products[<<tenantId, productId>>] =
                            Some([productName |-> product_name])]
             /\ last' = answer(200)
  /\ UNCHANGED store

\* A product delete that leaves the product's keys in the key table.
ProductDeleteMutKeepKeys(rawKey, tenantId, productId) ==
  /\ AdminRequest
  /\ LET gate == adminGate(rawKey, tenantId)
         answer(statusCode) == AdminDone("products.delete", rawKey, tenantId, statusCode)
     IN IF gate # 0
        THEN last' = answer(gate) /\ UNCHANGED admin
        ELSE IF admin.products[<<tenantId, productId>>] = None
        THEN last' = answer(404) /\ UNCHANGED admin
        ELSE /\ admin' = [admin EXCEPT !.products[<<tenantId, productId>>] = None]
             /\ last' = answer(200)
  /\ UNCHANGED store

\* products.ts deleteHandler: the keys of the tenant whose productId is the
\* product's go with it.
ProductDelete(rawKey, tenantId, productId) ==
  /\ AdminRequest
  /\ LET gate == adminGate(rawKey, tenantId)
         answer(statusCode) == AdminDone("products.delete", rawKey, tenantId, statusCode)
     IN IF gate # 0
        THEN last' = answer(gate) /\ UNCHANGED admin
        ELSE IF admin.products[<<tenantId, productId>>] = None
        THEN last' = answer(404) /\ UNCHANGED admin
        ELSE /\ admin' =
                  [admin EXCEPT
                     !.apiKeys = {r \in @ : ~(r.tenantId = tenantId /\ r.productId = productId)},
                     !.products[<<tenantId, productId>>] = None]
             /\ last' = answer(200)
  /\ UNCHANGED store

\* 5 * 60 * 1000, in milliseconds
CACHE_TTL == 300000

\* Date.now()
DateNow == now * 1000

\* A client is what it was constructed from: new Stripe(secretKey).
\* getStripeClient: the cached client while its expiry is ahead, else a new
\* one from the stored secret, which is cached; it throws without a secret.
getStripeClient(clientCache, secrets, tenantId) ==
  LET cached == clientCache[tenantId]
  IN IF cached # None /\ cached[1].expiry > DateNow
     THEN [thrown |-> FALSE, client |-> Some(cached[1].client), clientCache |-> clientCache]
     ELSE IF ~Truthy(secrets[tenantId])
     THEN [thrown |-> TRUE, client |-> None, clientCache |-> clientCache]
     ELSE [thrown |-> FALSE, client |-> secrets[tenantId],
           clientCache |->
             [clientCache EXCEPT ![tenantId] =
                Some([client |-> secrets[tenantId][1], expiry |-> DateNow + CACHE_TTL])]]

\* Exported by services/stripe.ts; no handler calls it.
invalidateStripeClient(clientCache, tenantId) ==
  [clientCache EXCEPT ![tenantId] = None]

\* The request the check handler has answered: the key's tenant and product,
\* the product id checkEntitlement was called with, the key of the row it
\* read, the key of the row it wrote, the Stripe client it got.
CheckHandlerDone(rawKey, auth, product_id, productId, readKey, wroteKey, client, statusCode) ==
  [op |-> "checkHandler", key |-> rawKey, auth |-> auth, product_id |-> product_id,
   productId |-> productId, readKey |-> readKey, wroteKey |-> wroteKey,
   client |-> client, statusCode |-> statusCode]

\* checkHandler with the checkEntitlement it calls.
CheckHandler(rawKey, product_id, user_email) ==
  /\ AdminRequest
  /\ LET auth == requireAnyKey(admin.apiKeys, rawKey)
         refuse(statusCode) ==
           /\ last' = CheckHandlerDone(rawKey, auth, product_id, None, None, None,
                                       None, statusCode)
           /\ UNCHANGED <<admin, store>>
     IN IF auth = None THEN refuse(401)
        ELSE IF auth[1].productId = WILDCARD /\ ~Truthy(product_id) THEN refuse(400)
        ELSE LET productId == IF auth[1].productId = WILDCARD THEN product_id[1]
                              ELSE auth[1].productId
                 tenantId == auth[1].tenantId
                 k == <<tenantProductKey(tenantId, productId), user_email>>
                 got == getStripeClient(admin.clientCache, admin.secrets, tenantId)
                 result == queryStripeEntitlement(user_email, productId)
                 cacheEntry == resolverCacheEntry(tenantId, productId, user_email,
                                                  user_email, result)
             IN IF ~tenantConfigured(admin.tenants[tenantId]) THEN refuse(400)
                ELSE IF admin.products[<<tenantId, productId>>] = None THEN refuse(404)
                ELSE IF isFresh(store[k])
                THEN /\ last' = CheckHandlerDone(rawKey, auth, product_id, Some(productId),
                                                 Some(k), None, None, 200)
                     /\ UNCHANGED <<admin, store>>
                ELSE IF got.thrown
                THEN /\ last' = CheckHandlerDone(rawKey, auth, product_id, Some(productId),
                                                 Some(k), None, None, 500)
                     /\ UNCHANGED <<admin, store>>
                ELSE /\ admin' = [admin EXCEPT !.clientCache = got.clientCache]
                     /\ store' = setEntitlementCache(store, cacheEntry)
                     /\ last' = CheckHandlerDone(rawKey, auth, product_id, Some(productId),
                                                 Some(k), Some(k), got.client, 200)

\* cancelHandler with its API key: Stripe knows no subscription here, so
\* subscriptions.update throws once the client is there.
CancelWithKey(rawKey, subscription_id) ==
  /\ AdminRequest
  /\ LET auth == requireAnyKey(admin.apiKeys, rawKey)
         got == getStripeClient(admin.clientCache, admin.secrets, auth[1].tenantId)
         answer(client, statusCode) ==
           [op |-> "cancelHandler", key |-> rawKey, auth |-> auth,
            client |-> client, statusCode |-> statusCode]
     IN IF auth = None
        THEN last' = answer(None, 401) /\ UNCHANGED admin
        ELSE IF ~Truthy(subscription_id)
        THEN last' = answer(None, 400) /\ UNCHANGED admin
        ELSE IF got.thrown
        THEN last' = answer(None, 500) /\ UNCHANGED admin
        ELSE /\ admin' = [admin EXCEPT !.clientCache = got.clientCache]
             /\ last' = answer(got.client, 500)
  /\ UNCHANGED store

AdminInit ==
  /\ InitRequests
  /\ store = [k \in AdminStoreKeys |-> None]
  /\ subs = <<>>
  /\ audienceCase = NoAudienceCase
  /\ decisionCase = NoDecisionCase
  /\ admin = InitAdmin

AdminNext ==
  \/ Tick
  \/ \E rawKey \in ApiKeyHeaders, tenantId \in TenantIds :
       \/ \E op \in {"tenants.get", "credentials.status"} : TenantRead(op, rawKey, tenantId)
       \/ TenantUpdate(rawKey, tenantId, "n2")
       \/ TenantDelete(rawKey, tenantId)
       \/ \E stripe_secret_key \in {None} \cup {Some(k) : k \in SecretKeys}, valid \in BOOLEAN :
            CredentialsSet(rawKey, tenantId, stripe_secret_key, valid)
       \/ CredentialsDelete(rawKey, tenantId)
       \/ \E product_id \in {None} \cup {Some(p) : p \in AdminProductIds} :
            ProductCreate(rawKey, tenantId, product_id)
       \/ \E op \in {"products.list", "products.get"}, productId \in AdminProductIds :
            ProductRead(op, rawKey, tenantId, productId)
       \/ \E productId \in AdminProductIds : ProductUpdate(rawKey, tenantId, productId, "n2")
       \/ \E productId \in AdminProductIds : ProductDelete(rawKey, tenantId, productId)
  \/ \E rawKey \in ApiKeyHeaders, product_id \in {None} \cup {Some(p) : p \in AdminProductIds},
        user_email \in Emails :
       CheckHandler(rawKey, product_id, user_email)
  \/ \E rawKey \in ApiKeyHeaders, subscription_id \in {None, Some("sub_1")} :
       CancelWithKey(rawKey, subscription_id)

AdminSpec == AdminInit /\ [][AdminNext]_vars

\* ------------------------------------------ subscription handlers
\* The handlers of subscriptions.ts (finalize with every body it can get and
\* every failure it can meet, cancel, list) with Stripe's own changes and the
\* webhook reconciler. No check runs here and no time passes; the deliveries
\* are verified ones, and the finalize that gets as far as its answer has a
\* payment method, no return_url and a callback that succeeds.
FinalizeUserIds == {None, Some("u1")}

SubscriptionNext ==
  \/ \E i \in 1..MaxSubs, to \in SubStatuses, type \in EventTypes :
       StripeStatusChange(i, to, type)
  \/ \E i \in 1..MaxSubs : StripeCancel(i)
  \/ \E f \in FinalizeProcs, tenant_id \in BodyTenantIds,
        customer_id \in BodyCustomerIds, price_id \in BodyPriceIds,
        product_id \in BodyProductIds, tenant \in Tenants :
       FinalizeRefuse(f, tenant_id, customer_id, price_id, product_id, tenant)
  \/ \E f \in FinalizeProcs, product_id \in Products, user_id \in FinalizeUserIds,
        price_id \in Prices, customer_id \in Customers,
        tenant \in Tenants, failing \in FinalizeCreateFailures \cup {"none"} :
       FinalizeCreate(f, product_id, user_id, price_id, Some("pm_1"),
                      customer_id, tenant, failing)
  \/ \E f \in FinalizeProcs, failing \in FinalizeWriteFailures \cup {"none"} :
       FinalizeWrite(f, failing)
  \/ \E f \in FinalizeProcs : FinalizeReturn(f, None, TRUE)
  \/ \E i \in 1..MaxSubs, failing \in CancelFailures \cup {"none"} : Cancel(i, failing)
  \/ \E email \in {None} \cup {Some(e) : e \in CaseEmails},
        failing \in ListFailures \cup {"none"} : List(email, failing)
  \/ \E w \in WebhookProcs, e \in 1..MaxEvents : WebhookStart(w, e, "ok")
  \/ \E w \in WebhookProcs, form \in ProductForms,
        failing \in WebhookFailures \cup {"none"} : WebhookProcess(w, form, failing)
  \/ \E w \in WebhookProcs : WebhookAudit(w)

SubscriptionSpec == Init /\ [][SubscriptionNext]_vars

\* ---------------------------------------------- deliveries of any event
\* The webhook handler on any one event Stripe can send about an account of
\* at most MaxEventSubs subscriptions: the subscription may have been made
\* outside finalizeHandler, its customer may have no email, and the event
\* may be of a type the handler has no case for.
DeliveredCustomers == {"cus_1", "cus_3"}

DeliveredSubscriptions ==
  [customer : DeliveredCustomers, price : Prices, status : SubStatuses,
   paywall_product : {None, Some("p1")}, user_id : {None},
   current_period_end : {PeriodEnd}, canceledAt : {0},
   cancel_at_period_end : {FALSE}]

\* Event types processWebhookEvent has no case for.
OtherEventTypes == {"invoice.paid"}

DeliveredEvents(account) ==
  CaseEvents(account) \cup
    {[type |-> type, sub |-> 0, status |-> ""] : type \in OtherEventTypes}

WebhookInit ==
  /\ InitHandlers
  /\ store = [k \in StoreKeys |-> None]
  /\ audienceCase = NoAudienceCase
  /\ decisionCase = NoDecisionCase
  /\ admin = InitAdmin
  /\ subs \in Accounts(MaxEventSubs, DeliveredSubscriptions)
  /\ \E ev \in DeliveredEvents(subs) : events = <<ev>>

WebhookNext ==
  \/ \E w \in WebhookProcs, e \in 1..MaxEvents, verification \in Verifications :
       WebhookStart(w, e, verification)
  \/ \E w \in WebhookProcs, form \in ProductForms,
        failing \in WebhookFailures \cup {"none"} : WebhookProcess(w, form, failing)
  \/ \E w \in WebhookProcs : WebhookAudit(w)

WebhookSpec == WebhookInit /\ [][WebhookNext]_vars

\* ---------------------------------------------------------------- claims
\* A field of the subscription object a check returned, undefined when the
\* result carries no subscription object.
returned(ret, field) ==
  IF ret.subscription = None THEN None ELSE Some(ret.subscription[1][field])

\* The check that just finished was served from the row, without any
\* provider call or store write, and returned the row's hasAccess.
ServedFromRow ==
  /\ last.hit /\ last.outcome = "ok"
  /\ last.calls = 0 /\ last.writes = 0
  /\ last.ret[1].hasAccess = last.cached[1].hasAccess

ReturnsStoredFields ==
  /\ returned(last.ret[1], "status") = last.cached[1].status
  /\ returned(last.ret[1], "planCode") = last.cached[1].planCode
  /\ returned(last.ret[1], "currentPeriodEnd") = last.cached[1].currentPeriodEnd

\* C1 as stated: a check that reads a row with now < ttl makes no provider
\* call, writes nothing, and returns the stored hasAccess together with the
\* stored status, planCode and currentPeriodEnd.
C1_AsStated ==
  (last.op = "check" /\ last.freshAtRead) => (ServedFromRow /\ ReturnsStoredFields)

\* C1 (amended): a check that reads a row with now < ttl makes no provider
\* call, writes nothing and returns the stored hasAccess; when the stored
\* hasAccess is true it returns the stored status, planCode and
\* currentPeriodEnd, and when it is false it returns no subscription fields,
\* whatever the row stores.
C1_HitPath ==
  (last.op = "check" /\ last.freshAtRead) =>
    /\ ServedFromRow
    /\ last.cached[1].hasAccess => ReturnsStoredFields
    /\ ~last.cached[1].hasAccess => last.ret[1].subscription = None

C1_Witness ==
  /\ last.op = "check" /\ last.freshAtRead /\ last.hit
  /\ last.ret[1].hasAccess
  /\ last.ret[1].subscription # None

C3_AsStated ==
  (last.op = "check" /\ last.outcome = "ok" /\ last.afterPaid /\ last.paidAtReturn)
    => last.ret[1].hasAccess

\* C4 as stated: no check returns hasAccess = true later than the long
\* window after the cancellation of the subscription at the provider.
C4_AsStated ==
  (last.op = "check" /\ last.outcome = "ok" /\ last.lateAtReturn)
    => ~last.ret[1].hasAccess

\* The first delivery of event e wrote an entitlement row.
FirstDeliveryWrote(e) == audits[e] # None /\ audits[e][1].result = "success"

C6_AsStated ==
  /\ \A e \in 1..MaxEvents : evHist[e].writes <= 1
  /\ last.op = "webhook" => last.response.statusCode # 500

\* Expiry minus write time of the row stored under k.
Window(k) == store[k][1].ttl - writeLog[k][1].at

\* C7 as stated: every stored row, whichever writer wrote it, expires 300 s
\* after its write when hasAccess is true and 60 s after it when false.
C7_AsStated ==
  \A k \in StoreKeys :
    store[k] # None =>
      Window(k) = IF store[k][1].hasAccess THEN 300 ELSE 60

\* C8: a row written by the resolver's write-back expires 300 s after the
\* write when the resolved hasAccess is true and 60 s after it when false.
C8_ResolverWindow ==
  \A k \in StoreKeys :
    (store[k] # None /\ writeLog[k][1].writer = "resolver") =>
      Window(k) = IF store[k][1].hasAccess THEN 300 ELSE 60

C8_Witness ==
  /\ \E k \in StoreKeys :
       store[k] # None /\ writeLog[k][1].writer = "resolver" /\ store[k][1].hasAccess
  /\ last.op = "check" /\ last.writes = 1

\* C9: the row written for customer.subscription.deleted has hasAccess =
\* false and expires 60 s after the write.
C9_RevokeWindow ==
  \A k \in StoreKeys :
    (store[k] # None /\ writeLog[k][1].writer = "revoke") =>
      (~store[k][1].hasAccess /\ Window(k) = 60)

C9_Witness ==
  \E k \in StoreKeys : store[k] # None /\ writeLog[k][1].writer = "revoke"

\* C10: a check during which a provider call failed ends in a failure: it
\* returns no decision (the handler answers 500 without has_access) and it
\* has written no row.
C10_ProviderFailure ==
  (last.op = "check" /\ last.providerFailed) =>
    /\ last.outcome = "providerError"
    /\ last.ret = None
    /\ last.response = [statusCode |-> 500, has_access |-> None]
    /\ last.writes = 0

C10_Witness ==
  last.op = "check" /\ last.providerFailed /\ last.outcome = "providerError"

\* C11 as stated: a check that missed and got a decision from the billing
\* provider returns a decision to its caller, also when the store write of
\* that decision fails.
C11_AsStated ==
  (last.op = "check" /\ last.calls = 1 /\ ~last.providerFailed) =>
    (last.outcome = "ok" /\ last.ret # None)

\* C12: when the entitlement write of finalizeHandler fails after the
\* subscription was created, the handler answers with an error, has sent no
\* product callback, and the step leaves the provider's subscriptions as
\* they are (nothing is rolled back or cancelled).
C12_FinalizeWriteFailure ==
  [][(last'.op = "finalize" /\ last'.failed = "setEntitlementCache") =>
       /\ last'.outcome = "error"
       /\ last'.response.statusCode = 500
       /\ last'.callbacks = 0
       /\ last'.sub \in 1..Len(subs')
       /\ subs' = subs
       /\ store' = store]_vars

C12_Witness ==
  /\ last.op = "finalize" /\ last.failed = "setEntitlementCache"
  /\ last.sub \in 1..Len(subs) /\ subs[last.sub].status = "active"
  /\ last.response.statusCode = 500

\* C13: a successful check that missed has made exactly one store write
\* (the row of its key is the one it wrote, now), and a check that hit has
\* made none.
C13_WriteCount ==
  (last.op = "check" /\ last.outcome = "ok") =>
    IF last.hit
    THEN last.writes = 0
    ELSE /\ last.writes = 1
         /\ store[last.key] # None
         /\ store[last.key][1].hasAccess = last.ret[1].hasAccess
         /\ writeLog[last.key] =
              Some([writer |-> "resolver", at |-> now, row |-> store[last.key][1]])

C13_Witness ==
  /\ last.op = "check" /\ last.outcome = "ok" /\ ~last.hit
  /\ last.writes = 1 /\ store[last.key] # None

\* C17: a webhook request that cannot be verified (no webhook secret, no
\* signature header, bad signature) never gets past verification, is answered
\* with an error, and its step writes no audit record and no entitlement row.
C17_RejectUnverified ==
  [][/\ \A w \in WebhookProcs : wh'[w].verification = "ok"
     /\ (last'.op = "webhook" /\ last'.verification # "ok") =>
          /\ last'.response.statusCode = 400
          /\ last'.writes = 0
          /\ audits' = audits
          /\ store' = store
          /\ wh' = wh]_vars

C17_Witness ==
  /\ last.op = "webhook" /\ last.verification = "badSignature"
  /\ last.response.statusCode = 400
  /\ events # <<>>

\* C18: with the tenant record absent or not configured, the check handler
\* and the finalize handler answer with an error without a provider call and
\* without a read or write of the entitlement store; no request passes the
\* gate.
C18_NotConfigured ==
  /\ \A p \in CheckProcs : check[p].tenant = ConfiguredTenant
  /\ \A f \in FinalizeProcs : fin[f].tenant = ConfiguredTenant
  /\ (last.op \in {"check", "finalize"} /\ last.tenant # ConfiguredTenant) =>
       /\ last.response.statusCode = 400
       /\ last.calls = 0
       /\ last.writes = 0
       /\ last.op = "check" => (last.reads = 0 /\ last.outcome = "notConfigured")
       /\ last.op = "finalize" => last.outcome = "error"

C18_Witness ==
  /\ last.op = "check" /\ last.tenant = None
  /\ last.response.statusCode = 400
  /\ store[last.key] # None /\ store[last.key][1].ttl > now

\* C19: the store holds one row per key, and that row is always the item of
\* the latest put for the key, whole: a field the item lacks (planCode and
\* currentPeriodEnd of a revocation) is absent from the stored row.
C19_LastWriterWins ==
  \A k \in StoreKeys :
    /\ (store[k] = None) = (writeLog[k] = None)
    /\ store[k] # None =>
         /\ store[k] = Some(writeLog[k][1].row)
         /\ <<store[k][1].tenantProductKey, store[k][1].userId>> = k
         /\ writeLog[k][1].writer = "revoke" =>
              (store[k][1].planCode = None /\ store[k][1].currentPeriodEnd = None)

C19_Witness ==
  \E k \in StoreKeys :
    /\ store[k] # None /\ writeLog[k][1].writer = "revoke"
    /\ store[k][1].planCode = None
    /\ last.op = "webhook" /\ last.writes = 1
    /\ \E e \in 1..Len(events) : e # last.event /\ evHist[e].writes = 1

\* C14 as stated: a plan without audience matches every product id, a plan
\* with audience "a,b" matches exactly the products "a" and "b", and the
\* entitlement check and the plan listing decide the same match for every
\* (audience, product id) pair.
C14_AsStated ==
  (audienceCase.query # None /\ audienceCase.plans # None) =>
    /\ audienceCase.audience = None => audienceCase.query[1]
    /\ audienceCase.audience = Some(<<"a", ",", "b">>) =>
         (audienceCase.query[1] = (audienceCase.productId \in {<<"a">>, <<"b">>}))
    /\ audienceCase.query = audienceCase.plans

\* At the provider, a customer with this email has a subscription that is
\* active or trialing and whose plan is for this product (or for any).
Entitled(email, productId) ==
  \E c \in AccountCustomers, i \in 1..Len(subs) :
    /\ CustomerEmail(c) = Some(email)
    /\ subs[i].customer = c
    /\ subs[i].status \in {"active", "trialing"}
    /\ PriceProduct(subs[i].price).audience \in {None, Some(productId)}

\* C15: the billing query answers hasAccess = true exactly when a customer
\* with the email has an active or trialing subscription whose plan matches
\* the product (so false without customer, with only past_due, canceled or
\* incomplete subscriptions, or without matching plan); a row the webhook
\* reconciler writes has hasAccess = true exactly when the status of the
\* subscription is active or trialing.
C15_AccessStatuses ==
  /\ (decisionCase.kind = "query" /\ decisionCase.out # None) =>
       (decisionCase.out[1].hasAccess =
          Entitled(decisionCase.email, decisionCase.productId))
  /\ (decisionCase.kind = "event" /\ decisionCase.out # None
        /\ decisionCase.out[1].entry # None) =>
       LET row == decisionCase.out[1].entry[1]
       IN /\ row.hasAccess = (row.status[1] \in {"active", "trialing"})
          /\ decisionCase.event.type # "invoice.payment_failed" =>
               row.status = Some(decisionCase.event.status)

C15_Witness ==
  /\ decisionCase.kind = "event" /\ decisionCase.out # None
  /\ decisionCase.event.type = "customer.subscription.updated"
  /\ decisionCase.event.status = "trialing"
  /\ decisionCase.out[1].entry # None
  /\ decisionCase.out[1].entry[1].hasAccess

\* C16: for invoice.payment_failed the reconciler writes nothing when the
\* invoice is of no subscription; otherwise the row it writes has hasAccess
\* = true exactly when the subscription, as re-fetched, is active or
\* trialing, whatever the status was when the event was emitted.
C16_InvoicePaymentFailed ==
  (decisionCase.kind = "event" /\ decisionCase.out # None
     /\ decisionCase.event.type = "invoice.payment_failed") =>
    IF decisionCase.event.sub = 0
    THEN decisionCase.out[1] = NoWrite("success")
    ELSE decisionCase.out[1].entry # None =>
           LET row == decisionCase.out[1].entry[1]
               current == subs[decisionCase.event.sub].status
           IN /\ decisionCase.out[1].writer = "update"
              /\ row.status = Some(current)
              /\ row.hasAccess = (current \in {"active", "trialing"})

C16_Witness ==
  /\ decisionCase.kind = "event" /\ decisionCase.out # None
  /\ decisionCase.event.type = "invoice.payment_failed"
  /\ decisionCase.event.sub # 0
  /\ decisionCase.event.status = "past_due"
  /\ subs[decisionCase.event.sub].status = "active"
  /\ decisionCase.out[1].entry # None
  /\ decisionCase.out[1].entry[1].hasAccess

\* C20: no step of a check, finalize, cancel or webhook request (nor any
\* other step) removes a row from the entitlement store, and after the
\* reconciler has handled a revocation the row is there with hasAccess =
\* false.
C20_NoDeletion ==
  [][/\ \A k \in StoreKeys : store[k] # None => store'[k] # None
     /\ \A k \in StoreKeys :
          (writeLog'[k] # None /\ writeLog'[k][1].writer = "revoke") =>
            (store'[k] # None /\ ~store'[k][1].hasAccess)]_vars

C20_Witness ==
  /\ last.op = "cancel" /\ last.outcome = "ok"
  /\ \E k \in StoreKeys :
       store[k] # None /\ writeLog[k][1].writer = "finalize" /\ store[k][1].hasAccess

\* C21 as stated: when two checks for the same key have both missed and both
\* got their answer from the billing provider, the two rows they are about to
\* write carry the same hasAccess, so that the stored row does not depend on
\* which of the two writes lands last.
C21_AsStated ==
  \A p \in CheckProcs, q \in CheckProcs :
    (/\ p # q
     /\ check[p].pc = "write" /\ check[q].pc = "write"
     /\ CheckKey(check[p]) = CheckKey(check[q])) =>
      check[p].result[1].hasAccess = check[q].result[1].hasAccess

\* C23: the store write of a finalize puts a row with hasAccess = true that
\* expires 300 s later, whose subscriptionId, planCode, status and
\* currentPeriodEnd are those of the subscription as it was created (its
\* status at creation, even if the provider has changed it since), also when
\* the request carried no payment_method.
C23_FinalizeRow ==
  [][\A f \in FinalizeProcs :
       (fin[f].pc = "write" /\ fin'[f].pc = "return") =>
         LET r == fin[f]
             stripeProduct == PriceProduct(r.price_id)
             row == store'[fin'[f].key[1]]
         IN /\ row # None
            /\ row[1].hasAccess
            /\ row[1].ttl = now + 300
            /\ row[1].subscriptionId = Some(subscriptionId(r.sub))
            /\ row[1].planCode = Some(OrElse(stripeProduct.plan_code, stripeProduct.id))
            /\ row[1].status = Some(r.status)
            /\ row[1].currentPeriodEnd = Some(toISOString(PeriodEnd))
            /\ fin'[f].key[1][1] = tenantProductKey(TenantId, r.product_id)]_vars

C23_Witness ==
  /\ last.op = "finalize" /\ last.outcome = "ok"
  /\ last.payment_method = None
  /\ writeLog[last.key] # None /\ writeLog[last.key][1].writer = "finalize"
  /\ store[last.key][1].hasAccess
  /\ store[last.key][1].status = Some("incomplete")
  /\ subs[last.sub].status = "active"

\* C24: in a finalize the subscription is created in a step that writes no
\* row, the row is written in a later step, before any callback or response,
\* and the step that makes the callback and answers leaves the store as it
\* is and answers 200 with the subscription, whether the callback succeeds
\* or fails.
C24_FinalizeOrdering ==
  [][\A f \in FinalizeProcs :
       /\ (fin[f].pc = "idle" /\ fin'[f].pc = "write") =>
            /\ Len(subs') = Len(subs) + 1 /\ fin'[f].sub = Len(subs')
            /\ store' = store /\ last' = NoRequest
       /\ (fin[f].pc # "return" /\ fin'[f].pc = "return") =>
            /\ fin[f].pc = "write" /\ fin[f].sub \in 1..Len(subs)
            /\ store'[fin'[f].key[1]] # None
            /\ writeLog'[fin'[f].key[1]][1] =
                 [writer |-> "finalize", at |-> now, row |-> store'[fin'[f].key[1]][1]]
            /\ last' = NoRequest
       /\ (fin[f].pc = "return" /\ fin'[f].pc = "idle") =>
            /\ store' = store /\ writeLog' = writeLog /\ subs' = subs
            /\ last'.op = "finalize" /\ last'.outcome = "ok"
            /\ last'.writes = 1
            /\ last'.response.statusCode = 200
            /\ last'.response.subscription_id = subscriptionId(fin[f].sub)]_vars

C24_Witness ==
  /\ last.op = "finalize" /\ last.outcome = "ok"
  /\ last.callbacks = 1 /\ last.callbackFailed
  /\ last.response.statusCode = 200
  /\ writeLog[last.key] # None /\ writeLog[last.key][1].writer = "finalize"

\* C26 as stated: when the product has a non-empty allowedReturnUrls, the
\* redirect_url of a successful finalize starts with one of the allowed
\* URLs, whatever return_url the request carried.
C26_AsStated ==
  (last.op = "finalize" /\ last.outcome = "ok"
     /\ Len(allowedReturnUrls(last.product_id)) > 0) =>
    \E i \in 1..Len(allowedReturnUrls(last.product_id)) :
      startsWith(last.response.redirect_url, allowedReturnUrls(last.product_id)[i])

\* C28: a check makes at most one store read, one billing query and one
\* store write: a check in flight has queried at most once, it reaches its
\* write only after a query that did not fail, and a check in which a
\* provider call failed has ended there, as a failure, after that one call.
C28_NoRetry ==
  /\ \A p \in CheckProcs :
       /\ check[p].calls <= 1
       /\ check[p].pc = "query" => check[p].calls = 0
       /\ check[p].pc = "write" => (check[p].calls = 1 /\ ~check[p].providerFailed)
  /\ last.op = "check" =>
       /\ last.reads <= 1 /\ last.calls <= 1 /\ last.writes <= 1
       /\ last.hit => (last.calls = 0 /\ last.writes = 0)
       /\ last.providerFailed =>
            (last.outcome = "providerError" /\ last.calls = 1 /\ last.ret = None)

C28_Witness ==
  /\ last.op = "check" /\ last.providerFailed
  /\ last.reads = 1 /\ last.calls = 1 /\ last.writes = 0
  /\ store[last.key] = None
  /\ \E p \in CheckProcs : check[p].pc = "write"

\* The event just handled made the reconciler write a row.
EventWrote ==
  /\ decisionCase.kind = "event" /\ decisionCase.out # None
  /\ decisionCase.out[1].entry # None

\* C22 as stated: the row the reconciler writes for a subscription event, on
\* the update path and on the revoke path, is keyed by the tenant and by
\* product id = metadata paywall_product, else the audience of the
\* subscription's plan, else '*', and by user id = metadata user_id, else
\* the email of the customer.
C22_AsStated ==
  EventWrote =>
    LET subscription == subs[decisionCase.event.sub]
        entry == decisionCase.out[1].entry[1]
        productId == OrElse(subscription.paywall_product,
                            OrElse(PriceProduct(subscription.price).audience, WILDCARD))
        userId == OrElse(subscription.user_id,
                         CustomerEmail(subscription.customer)[1])
    IN /\ entry.tenantProductKey = tenantProductKey(TenantId, productId)
       /\ entry.userId = userId

\* The event just handled made the reconciler write a row keyed by '*'.
WildcardWritten ==
  /\ EventWrote
  /\ decisionCase.out[1].entry[1].tenantProductKey =
       tenantProductKey(TenantId, WILDCARD)

\* C30: when the reconciler resolves the product id to '*', the step that
\* handles the event puts its row under the key of product '*' and changes
\* no other row; and a check that then reads the row of a real product id
\* gets what was stored there before the event, never the row the event
\* wrote.
C30_WildcardFallback ==
  [][/\ (decisionCase.out = None /\ WildcardWritten') =>
          LET entry == decisionCase'.out[1].entry[1]
              k == <<tenantProductKey(TenantId, WILDCARD), entry.userId>>
          IN /\ store'[k] = Some(entry)
             /\ \A j \in CaseStoreKeys \ {k} : store'[j] = store[j]
     /\ (WildcardWritten /\ decisionCase.later = None /\ decisionCase'.later # None) =>
          LET later == decisionCase'.later[1]
              k == <<tenantProductKey(TenantId, later.productId), later.userId>>
          IN /\ later.cached = store[k]
             /\ later.cached # Some(decisionCase.out[1].entry[1])
             /\ later.cached \in {None, Some(PriorRow(later.userId))}]_vars

C30_Witness ==
  /\ WildcardWritten
  /\ decisionCase.out[1].writer = "revoke"
  /\ subs[decisionCase.event.sub].paywall_product = None
  /\ PriceProduct(subs[decisionCase.event.sub].price).audience = None
  /\ decisionCase.later # None
  /\ decisionCase.later[1].productId = "p1"
  /\ decisionCase.later[1].userId = decisionCase.out[1].entry[1].userId
  /\ decisionCase.later[1].hit
  /\ decisionCase.later[1].cached[1].hasAccess
  /\ store[<<tenantProductKey(TenantId, WILDCARD), decisionCase.later[1].userId>>] # None

\* The key a request presents is no admin key of the tenant in its path: it
\* is absent or unknown, it is a product-scoped key, or it is a key of
\* another tenant.
Unauthorized(rawKey, tenantId) ==
  LET resolved == resolveApiKey(admin.apiKeys, rawKey)
  IN \/ resolved = None
     \/ resolved[1].keyType # "admin"
     \/ resolved[1].tenantId # tenantId

\* C25: a request to an admin handler (tenant get/update/delete, credentials
\* set/status/delete, product create/list/get/update/delete) whose key is no
\* admin key of the path tenant is answered 401 or 403 and changes no
\* tenant, product, API key, secret, cached client or entitlement row; and a
\* request to the check handler reads and writes entitlement rows of the
\* tenant of its key only, and changes no table of the admin surface.
C25_TenantIsolation ==
  [][/\ (/\ requests' = requests + 1
         /\ last'.op \in AdminOps
         /\ Unauthorized(last'.key, last'.tenantId)) =>
          /\ last'.statusCode \in {401, 403}
          /\ admin' = admin
          /\ store' = store
     /\ (requests' = requests + 1 /\ last'.op = "checkHandler") =>
          /\ \A k \in AdminStoreKeys :
               store'[k] # store[k] =>
                 (last'.auth # None /\ k \in TenantRows(last'.auth[1].tenantId))
          /\ last'.readKey # None =>
               last'.readKey[1] \in TenantRows(last'.auth[1].tenantId)
          /\ last'.auth = None => (last'.statusCode = 401 /\ last'.readKey = None)
          /\ admin'.tenants = admin.tenants /\ admin'.products = admin.products
          /\ admin'.apiKeys = admin.apiKeys /\ admin'.secrets = admin.secrets
          /\ \A t \in TenantIds :
               admin'.clientCache[t] # admin.clientCache[t] =>
                 (last'.auth # None /\ t = last'.auth[1].tenantId)]_vars

C25_Witness ==
  /\ last.op = "credentials.set"
  /\ last.key = Some(generateApiKey("admin", 2))
  /\ last.tenantId = "t1"
  /\ last.statusCode = 403
  /\ admin.secrets["t1"] = Some("sk_1")
  /\ \E k \in TenantRows("t1") : store[k] # None

\* C27 as stated: the Stripe client a handler gets from getStripeClient is
\* one constructed from the secret key that is stored for the tenant at that
\* moment, so never one from a key that a credentials set or delete has
\* replaced or removed since.
C27_AsStated ==
  (last.op \in {"checkHandler", "cancelHandler"} /\ last.client # None) =>
    admin.secrets[last.auth[1].tenantId] = last.client

\* C29 as stated: a check with a product-scoped key is made for the key's
\* own product id whatever product_id the body carries, a check with an
\* admin key and no product_id in the body is refused, and no check is made
\* for the product id '*'.
C29_AsStated ==
  last.op = "checkHandler" =>
    /\ (last.auth # None /\ last.auth[1].keyType = "product" /\ last.productId # None) =>
         last.productId = Some(last.auth[1].productId)
    /\ (last.auth # None /\ last.auth[1].keyType = "admin" /\ ~Truthy(last.product_id)) =>
         (last.statusCode = 400 /\ last.productId = None)
    /\ last.productId # Some(WILDCARD)

\* C35: every stored row expires no later than 300 s after the put that
\* produced it, whichever writer made the put (resolver, finalize, webhook
\* update, webhook revoke) and whatever its hasAccess.
C35_ExpiryBound ==
  \A k \in StoreKeys :
    store[k] # None =>
      /\ writeLog[k] # None
      /\ store[k] = Some(writeLog[k][1].row)
      /\ store[k][1].ttl <= writeLog[k][1].at + 300

C35_Witness ==
  \E k \in StoreKeys :
    /\ store[k] # None /\ writeLog[k][1].writer = "update"
    /\ ~store[k][1].hasAccess
    /\ store[k][1].ttl = writeLog[k][1].at + 300
    /\ writeLog[k][1].at > 0

\* C38: a check that returns a decision, from the row or from the billing
\* query, returns a subscription object exactly when hasAccess is true, so
\* the handler answers 200 (its dereferences of result.subscription do not
\* throw) with the subscription fields when has_access is true, and with a
\* checkout_url exactly when has_access is false.
C38_DecisionShape ==
  (last.op = "check" /\ last.outcome = "ok") =>
    LET ret == last.ret[1]
        body == last.body[1]
    IN /\ (ret.subscription # None) = ret.hasAccess
       /\ body.statusCode = 200
       /\ body.has_access = Some(ret.hasAccess)
       /\ (body.checkout_url # None) = (body.has_access = Some(FALSE))
       /\ (body.subscription # None) = (body.has_access = Some(TRUE))
       /\ ret.hasAccess =>
            body.subscription[1] =
              [status |-> ret.subscription[1].status,
               plan_code |-> ret.subscription[1].planCode,
               current_period_end |-> ret.subscription[1].currentPeriodEnd]

C38_Witness ==
  /\ last.op = "check" /\ last.outcome = "ok" /\ last.hit
  /\ ~last.cached[1].hasAccess
  /\ last.cached[1].status = Some("incomplete")
  /\ last.cached[1].planCode # None
  /\ last.ret[1].subscription = None
  /\ last.body[1].checkout_url # None

\* The raw key was handed out (it is one of the keys of the start) and its
\* record is no longer in the key table.
FormerKey(rawKey) ==
  /\ Truthy(rawKey)
  /\ \E r \in InitAdmin.apiKeys : r.apiKeyHash = hashApiKey(rawKey[1])
  /\ \A r \in admin.apiKeys : r.apiKeyHash # hashApiKey(rawKey[1])

\* C39: the step of a product delete that answers 200 removes the product
\* and leaves no key record of that tenant and product, and the step of a
\* tenant delete that answers 200 leaves no key record, no product record
\* and no tenant record of the tenant; from then on a request that presents
\* a key whose record is gone is answered 401, by the check and cancel
\* handlers as by the admin handlers.
C39_KeyRevocation ==
  [][/\ (requests' = requests + 1 /\ last'.op = "products.delete"
           /\ last'.statusCode = 200) =>
          /\ \E p \in AdminProductIds :
               admin.products[<<last'.tenantId, p>>] # None
                 /\ admin'.products[<<last'.tenantId, p>>] = None
          /\ \A p \in AdminProductIds :
               (admin.products[<<last'.tenantId, p>>] # None
                  /\ admin'.products[<<last'.tenantId, p>>] = None) =>
                 /\ \A r \in admin'.apiKeys :
                      ~(r.tenantId = last'.tenantId /\ r.productId = p)
                 /\ \A rawKey \in ApiKeyHeaders :
                      LET was == resolveApiKey(admin.apiKeys, rawKey)
                      IN (was # None /\ was[1].tenantId = last'.tenantId
                            /\ was[1].productId = p) =>
                           requireAnyKey(admin'.apiKeys, rawKey) = None
     /\ (requests' = requests + 1 /\ last'.op = "tenants.delete"
           /\ last'.statusCode = 200) =>
          /\ \A r \in admin'.apiKeys : r.tenantId # last'.tenantId
          /\ \A p \in AdminProductIds : admin'.products[<<last'.tenantId, p>>] = None
          /\ admin'.tenants[last'.tenantId] = None
     /\ (requests' = requests + 1
           /\ last'.op \in AdminOps \cup {"checkHandler", "cancelHandler"}
           /\ FormerKey(last'.key)) =>
          /\ last'.statusCode = 401
          /\ admin' = admin /\ store' = store]_vars

C39_Witness ==
  /\ last.op = "checkHandler" /\ last.statusCode = 401
  /\ last.key = Some(generateApiKey("product", 3))
  /\ FormerKey(last.key)
  /\ admin.products[<<"t1", "p1">>] = None
  /\ admin.tenants["t1"] # None
  /\ admin.tenants["t2"] = None
  /\ \A r \in admin.apiKeys : r.tenantId # "t2"

\* C31: the audit record of an event is put by the last step of a delivery,
\* after the step that processed the event, and carries the result of that
\* processing; when the processing threw, the record says 'error' and the
\* delivery is still answered 200 {received: true}; a delivery that comes
\* after that one has finished is answered as a duplicate and writes
\* nothing, so that no entitlement row is ever written for the event.
C31_AuditAfterProcessing ==
  [][/\ \A w \in WebhookProcs :
          /\ (wh[w].pc = "process" /\ wh'[w].pc # "process") =>
               (wh'[w].pc = "audit" /\ audits' = audits /\ last' = NoRequest)
          /\ (wh[w].pc = "audit" /\ wh'[w].pc = "idle" /\ audits[wh[w].event] = None) =>
               /\ audits'[wh[w].event] # None
               /\ audits'[wh[w].event][1].result = wh[w].result
               /\ store' = store
               /\ last'.response =
                    [statusCode |-> 200, received |-> TRUE, duplicate |-> FALSE]
     /\ \A e \in 1..MaxEvents :
          (audits[e] = None /\ audits'[e] # None) =>
            \E w \in WebhookProcs :
              wh[w].pc = "audit" /\ wh[w].event = e /\ wh'[w].pc = "idle"
     /\ (last'.op = "webhook" /\ last'.redelivery /\ ~evHist'[last'.event].overlap
           /\ audits'[last'.event] # None
           /\ audits'[last'.event][1].result = "error") =>
          /\ last'.response =
               [statusCode |-> 200, received |-> TRUE, duplicate |-> TRUE]
          /\ last'.writes = 0
          /\ store' = store
          /\ evHist'[last'.event].writes = 0]_vars

C31_Witness ==
  /\ last.op = "webhook" /\ last.redelivery /\ ~evHist[last.event].overlap
  /\ last.response.duplicate
  /\ audits[last.event] # None /\ audits[last.event][1].result = "error"
  /\ events[last.event].type = "customer.subscription.created"
  /\ events[last.event].status = "active"
  /\ Truthy(CustomerEmail(subs[events[last.event].sub].customer))
  /\ evHist[last.event].writes = 0
  /\ \A k \in StoreKeys : store[k] = None

\* The event is of a type the handler has no case for, or it is a
\* subscription event whose customer has no email.
WritesNothing(ev) ==
  \/ ev.type \notin EventTypes
  \/ /\ ev.type \in EventTypes /\ ev.sub # 0
     /\ ~Truthy(CustomerEmail(subs[ev.sub].customer))

\* C34: for an event of an unhandled type, and for a handled event whose
\* customer has no email, processing ends without a store write and without
\* an error whenever the provider calls it makes answer, the processing step
\* of the delivery leaves the entitlement store as it is, and the delivery
\* puts an audit record with result 'success' and is answered 200
\* {received: true}.
C34_ConsumedWithoutWrite ==
  [][\A w \in WebhookProcs :
       (wh[w].pc \in {"process", "audit"} /\ WritesNothing(events[wh[w].event])) =>
         /\ (wh[w].pc = "process" /\ wh'[w].pc = "audit") =>
              /\ \A form \in ProductForms, failing \in {"none", "setEntitlementCache"} :
                   processWebhookEvent(events[wh[w].event], form, failing) =
                     NoWrite("success")
              /\ events[wh[w].event].type \notin EventTypes =>
                   wh'[w].result = "success"
              /\ wh'[w].writes = 0
              /\ store' = store /\ writeLog' = writeLog
         /\ (wh[w].pc = "audit" /\ wh'[w].pc = "idle" /\ wh[w].result = "success"
               /\ audits[wh[w].event] = None) =>
              /\ audits'[wh[w].event] # None
              /\ audits'[wh[w].event][1].result = "success"
              /\ store' = store
              /\ last'.writes = 0
              /\ last'.response =
                   [statusCode |-> 200, received |-> TRUE, duplicate |-> FALSE]]_vars

C34_Witness ==
  /\ last.op = "webhook" /\ ~last.redelivery
  /\ last.response = [statusCode |-> 200, received |-> TRUE, duplicate |-> FALSE]
  /\ last.result = "success" /\ last.writes = 0
  /\ events[last.event].type = "customer.subscription.updated"
  /\ events[last.event].status = "active"
  /\ CustomerEmail(subs[events[last.event].sub].customer) = None
  /\ audits[last.event] # None /\ audits[last.event][1].result = "success"
  /\ \A k \in StoreKeys : store[k] = None

\* C32 as stated: the webhook writes for a subscription go to the row that
\* finalize wrote for it, so the store never holds a finalize row of a
\* subscription under one key and a webhook row of the same subscription
\* under another key.
C32_AsStated ==
  \A k \in StoreKeys, j \in StoreKeys :
    (/\ writeLog[k] # None /\ writeLog[k][1].writer = "finalize"
     /\ writeLog[j] # None /\ writeLog[j][1].writer \in {"update", "revoke"}) =>
      writeLog[j][1].row.subscriptionId # writeLog[k][1].row.subscriptionId

\* C33 as stated: when the reconciler handles customer.subscription.created
\* and replaces the row finalize wrote for the same subscription in the same
\* status, the hasAccess it writes is the hasAccess finalize wrote.
C33_AsStated ==
  [][\A w \in WebhookProcs, k \in StoreKeys :
       (/\ wh[w].pc = "process" /\ wh'[w].pc = "audit"
        /\ events[wh[w].event].type = "customer.subscription.created"
        /\ writeLog[k] # None /\ writeLog[k][1].writer = "finalize"
        /\ writeLog'[k][1].writer = "update"
        /\ store'[k][1].subscriptionId = store[k][1].subscriptionId
        /\ store'[k][1].status = store[k][1].status) =>
         store'[k][1].hasAccess = store[k][1].hasAccess]_vars

\* The failures of finalizeHandler that come before its store write.
BeforeCacheWrite ==
  FinalizeRefusals \cup FinalizeCreateFailures \cup {"customers.retrieve"}

\* C36: a finalize that ends because a required field, the tenant
\* configuration or the product is missing, or because the price lookup, the
\* subscription creation or the customer lookup fails, answers with an error
\* (400, 404 or 500) in a step that leaves the entitlement store as it is,
\* and the step that created the subscription before a failed customer
\* lookup wrote no row either.
C36_FailureBeforeWrite ==
  [][/\ (last'.op = "finalize" /\ last'.failed \in BeforeCacheWrite) =>
          /\ last'.outcome = "error"
          /\ last'.response.statusCode =
               IF last'.failed = "productNotFound" THEN 404
               ELSE IF last'.failed \in FinalizeRefusals THEN 400
               ELSE 500
          /\ last'.writes = 0
          /\ store' = store /\ writeLog' = writeLog
          /\ last'.failed # "customers.retrieve" => (subs' = subs /\ last'.sub = 0)
     /\ \A f \in FinalizeProcs :
          (fin[f].pc = "idle" /\ fin'[f].pc = "write") =>
            (store' = store /\ writeLog' = writeLog)]_vars

C36_Witness ==
  /\ last.op = "finalize" /\ last.failed = "customers.retrieve"
  /\ last.response.statusCode = 500
  /\ last.sub \in 1..Len(subs) /\ subs[last.sub].status = "active"
  /\ \A k \in StoreKeys : store[k] = None

\* C37: the step of a cancel or of a subscription listing, whether it
\* succeeds or fails, leaves every entitlement row and the audit table as
\* they are; a successful cancel changes the subscription at the provider
\* (cancel_at_period_end) and nothing of the store.
C37_CancelListFrame ==
  [][last'.op \in {"cancel", "list"} =>
       /\ store' = store /\ writeLog' = writeLog /\ audits' = audits
       /\ last'.op = "list" => (subs' = subs /\ events' = events)
       /\ (last'.op = "cancel" /\ last'.outcome = "ok") =>
            \E i \in 1..Len(subs) :
              /\ subs' = [subs EXCEPT ![i].cancel_at_period_end = TRUE]
              /\ last'.response.subscription_id = subscriptionId(i)]_vars

C37_Witness ==
  /\ last.op = "cancel" /\ last.outcome = "ok"
  /\ subs[1].cancel_at_period_end /\ subs[1].status = "active"
  /\ store[<<tenantProductKey(TenantId, "p1"), "u1">>] # None
  /\ store[<<tenantProductKey(TenantId, "p1"), "u1">>][1].hasAccess
  /\ store[<<tenantProductKey(TenantId, "p1"), "u1">>][1].subscriptionId =
       Some(subscriptionId(1))

====
